---- MODULE Spec2Model ----
(***************************************************************************)
(* Model of pickmyelective's RAG service.                                  *)
(*  - Spec: the retrieval-and-ranking core (rag/src/query/engine.py):      *)
(*    QueryEngine.build_filters, _post_filter_courses, search_courses and  *)
(*    recommend, run against a vector-index collection.                    *)
(*  - InterpretSpec: QueryEngine.interpret_query over the replies of the   *)
(*    language model.                                                      *)
(*  - ApiSpec: the API process (rag/src/api): lifespan, request validation *)
(*    and the POST /api/recommend handler around recommend.                *)
(*  - IndexSpec: CourseIndexer (rag/src/index/indexer.py) writing the      *)
(*    collection.                                                          *)
(*  - ScoreSpec: calculate_elective_score (rag/src/processing).            *)
(*  - TransformSpec, TransformFairSpec: CourseTransformer                  *)
(*    (rag/src/transform/transformer.py): document text, ids, keywords.    *)
(*  - FilterSpec: QueryEngine._post_filter_courses on lists of courses.    *)
(*  - LifecycleSpec: set/get/clear of api.dependencies.query_engine.       *)
(*  - PreprocessSpec: CoursePreprocessor.process                           *)
(*    (rag/src/processing/preprocessor.py).                                *)
(*  - FetchSpec: CourseFetcher._enrich_courses (rag/src/data/fetcher.py).  *)
(*  - ConcurrentSpec: recommend coroutines interleaved at their awaits.    *)
(*                                                                         *)
(* Conventions                                                             *)
(*  - A Python str is a sequence of atoms: "," " " and "\n" are the        *)
(*    delimiter / whitespace atoms, every other atom is an indivisible run *)
(*    of ordinary characters ("Burnaby", "CMPT 120", ...).                 *)
(*  - Optional[T] is a sequence of length <= 1: <<>> is None, <<v>> is v.   *)
(*  - Distances and relevance scores are integers in units of 1/Scale.     *)
(*  - A combined score is an integer in units of 1/(100 * 25 * Scale).     *)
(***************************************************************************)
EXTENDS Integers, Sequences, FiniteSets, TLC

VARIABLES
    corpus,       \* the collection: entries in ascending distance to the query embedding
    call,         \* "none" | "recommend" | "search": the entry point in progress
    pc,           \* position of the call in progress
    query,        \* recommend's query argument
    filters,      \* QueryFilters argument
    top_k,        \* recommend's top_k argument
    min_relevance,\* recommend's min_relevance argument
    n_results,    \* search_courses' n_results argument
    interpretation,\* QueryInterpretation returned by interpret_query (Optional)
    candidates,   \* recommend's local `candidates` / search_courses' return value
    courses,      \* recommend's local `courses` (list of CourseResult)
    outcome,      \* "none" | "response" | "result" | "raised"
    queries,      \* history: the collection.query calls made, in order
    reasonCalls,  \* history: ids for which generate_match_reason was invoked, in order
    stages,       \* history: the pipeline stages completed, in order
    response,     \* the language-model reply handed to interpret_query
    env,          \* the deployment: environment variables, the persistent store
                  \* and the state of the API process
    engine,       \* api.dependencies.query_engine (Optional)
    request,      \* the body POST /api/recommend received (Optional)
    http,         \* the answer of POST /api/recommend (Optional)
    processed,    \* the course travelling through the offline pipeline
    indexer,      \* the CourseIndexer of the running script (Optional)
    collection,   \* the collection in the store (Optional list of entries)
    latest,       \* history: the course last upserted under each id since the
                  \* collection was (re)created
    fetcher,      \* the CourseFetcher of the running script and its
                  \* _enrich_courses call in progress (Optional)
    preprocessor, \* the CoursePreprocessor of the running script and its
                  \* process call (Optional)
    transformer,  \* the CourseTransformer of the running script and its
                  \* generate_keywords call in progress (Optional)
    tasks         \* the recommend coroutines the event loop is running

serviceVars == << env, engine, request, http >>

indexVars == << processed, indexer, collection, latest >>

pipelineVars == << fetcher, preprocessor, transformer >>

vars == << corpus, call, pc, query, filters, top_k, min_relevance, n_results,
           interpretation, candidates, courses, outcome, queries, reasonCalls,
           stages, response, serviceVars, indexVars, pipelineVars, tasks >>

-----------------------------------------------------------------------------
(* Bounds of the exploration *)

\* largest number of entries of a generated collection
MaxCorpus == 3

\* largest number of filter fields set in a recommend request
MaxActiveFilters == 2

\* fixed-point unit of distances and relevance scores: one is Scale units
Scale == 100 * 100

-----------------------------------------------------------------------------
(* Python values *)

\* a one-atom str
S(a) == << a >>

None == << >>
Some(v) == << v >>
IsNone(o) == Len(o) = 0
Val(o) == o[1]

\* bool(x) of an Optional[list] / Optional[bool] field
TruthyList(o) == (~IsNone(o)) /\ Len(Val(o)) > 0
TruthyBool(o) == (~IsNone(o)) /\ Val(o)

Max(a, b) == IF a >= b THEN a ELSE b
Min(a, b) == IF a <= b THEN a ELSE b

Whitespace == { " ", "\n" }

\* str.lstrip / str.rstrip / str.strip without arguments
RECURSIVE LStrip(_)
LStrip(s) ==
    IF Len(s) > 0 /\ Head(s) \in Whitespace THEN LStrip(Tail(s)) ELSE s

RECURSIVE RStrip(_)
RStrip(s) ==
    IF Len(s) > 0 /\ s[Len(s)] \in Whitespace
    THEN RStrip(SubSeq(s, 1, Len(s) - 1))
    ELSE s

Strip(s) == RStrip(LStrip(s))

\* str.split(sep): non-overlapping occurrences of the str sep, left to right;
\* always at least one part
\* the position of the first occurrence of sep in s at or after i, 0 if none
FindFrom(s, sep, i) ==
    LET hits == { j \in i..(Len(s) - Len(sep) + 1) :
                    SubSeq(s, j, j + Len(sep) - 1) = sep }
    IN  IF hits = { } THEN 0
        ELSE CHOOSE j \in hits : \A k \in hits : j <= k

RECURSIVE SplitFrom(_, _, _)
SplitFrom(s, sep, i) ==
    LET j == FindFrom(s, sep, i)
    IN  IF j = 0 THEN << SubSeq(s, i, Len(s)) >>
        ELSE << SubSeq(s, i, j - 1) >> \o SplitFrom(s, sep, j + Len(sep))

Split(s, sep) == SplitFrom(s, sep, 1)

\* sep in s
Contains(s, sep) ==
    \E i \in 1..Len(s) :
        i + Len(sep) - 1 <= Len(s) /\ SubSeq(s, i, i + Len(sep) - 1) = sep

\* sep.join(parts)
RECURSIVE Join(_, _)
Join(sep, parts) ==
    IF Len(parts) = 0 THEN << >>
    ELSE IF Len(parts) = 1 THEN parts[1]
    ELSE parts[1] \o sep \o Join(sep, Tail(parts))

\* dict.get(key, default)
Get(m, k, default) == IF k \in DOMAIN m THEN m[k] ELSE default

\* [f(x) for x in xs if p(x)] with f = strip, p = non-empty after strip
RECURSIVE StripNonEmpty(_)
StripNonEmpty(parts) ==
    IF Len(parts) = 0 THEN << >>
    ELSE IF Len(Strip(Head(parts))) > 0
         THEN << Strip(Head(parts)) >> \o StripNonEmpty(Tail(parts))
         ELSE StripNonEmpty(Tail(parts))

SeqToSet(s) == { s[i] : i \in 1..Len(s) }

-----------------------------------------------------------------------------
(* The collections explored *)

\* tests/conftest.py SAMPLE_COURSES, followed by two further entries
Catalog == <<
    [ id |-> "cmpt-120-2026su",
      document |-> << "CMPT 120 - Introduction to Computing", "\n",
                      "Department: CMPT", "\n", "\n",
                      "Introduction to programming." >>,
      metadata |-> [ course_code |-> S("CMPT 120"),
                     title |-> S("Introduction to Computing"),
                     department |-> S("CMPT"), level |-> 100, units |-> 3,
                     campuses |-> << "Burnaby", ",", "Surrey" >>,
                     wqb |-> << >>,
                     has_prerequisites |-> FALSE, has_wqb |-> FALSE,
                     delivery_methods |-> S("In Person"),
                     elective_score |-> 15,
                     prerequisite_level |-> S("none"),
                     prerequisites_raw |-> << >>,
                     instructors |-> S("Dr. Smith") ] ],
    [ id |-> "psyc-100-2026su",
      document |-> << "PSYC 100 - Introduction to Psychology", "\n",
                      "Department: PSYC", "\n", "\n",
                      "Introduction to psychology." >>,
      metadata |-> [ course_code |-> S("PSYC 100"),
                     title |-> S("Introduction to Psychology"),
                     department |-> S("PSYC"), level |-> 100, units |-> 3,
                     campuses |-> S("Burnaby"),
                     wqb |-> S("B-Soc"),
                     has_prerequisites |-> FALSE, has_wqb |-> TRUE,
                     delivery_methods |-> S("In Person"),
                     elective_score |-> 20,
                     prerequisite_level |-> S("none"),
                     prerequisites_raw |-> << >>,
                     instructors |-> S("Dr. Jones") ] ],
    [ id |-> "macm-101-2026su",
      document |-> << "MACM 101 - Discrete Mathematics", "\n",
                      "Department: MACM", "\n", "\n",
                      "Introduction to discrete math." >>,
      metadata |-> [ course_code |-> S("MACM 101"),
                     title |-> S("Discrete Mathematics"),
                     department |-> S("MACM"), level |-> 100, units |-> 3,
                     campuses |-> S("Burnaby"),
                     wqb |-> S("Q"),
                     has_prerequisites |-> TRUE, has_wqb |-> TRUE,
                     delivery_methods |-> S("In Person"),
                     elective_score |-> 12,
                     prerequisite_level |-> S("required"),
                     prerequisites_raw |-> S("MATH 100"),
                     instructors |-> S("Dr. Brown") ] ],
    [ id |-> "phil-100w-2026su",
      document |-> << "PHIL 100W - Introduction to Philosophy", "\n",
                      "Department: PHIL", "\n", "\n",
                      "Introduction to philosophical thinking." >>,
      metadata |-> [ course_code |-> S("PHIL 100W"),
                     title |-> S("Introduction to Philosophy"),
                     department |-> S("PHIL"), level |-> 100, units |-> 3,
                     campuses |-> << "Burnaby", ",", "Vancouver" >>,
                     wqb |-> << "W", ",", "B-Hum" >>,
                     has_prerequisites |-> FALSE, has_wqb |-> TRUE,
                     delivery_methods |-> << "In Person", ",", "Online" >>,
                     elective_score |-> 25,
                     prerequisite_level |-> S("none"),
                     prerequisites_raw |-> << >>,
                     instructors |-> S("Dr. Wilson") ] ],
    \* a 200-level course whose campuses string carries a space after the comma
    [ id |-> "engl-201-2026su",
      document |-> << "ENGL 201 - Writing", "\n",
                      "Department: ENGL", "\n", "\n",
                      "Academic writing.", "\n", "\n",
                      "Good for students interested in: essays" >>,
      metadata |-> [ course_code |-> S("ENGL 201"),
                     title |-> S("Writing"),
                     department |-> S("ENGL"), level |-> 200, units |-> 3,
                     campuses |-> << "Surrey", ",", " ", "Vancouver" >>,
                     wqb |-> S("W"),
                     has_prerequisites |-> TRUE, has_wqb |-> TRUE,
                     delivery_methods |-> S("Online"),
                     elective_score |-> 15,
                     prerequisite_level |-> S("recommended"),
                     prerequisites_raw |-> S("ENGL 100"),
                     instructors |-> << "Dr. Lee", ",", "Dr. Kim" >> ] ],
    \* a 300-level course with the metadata keys CourseIndexer._prepare_metadata writes
    [ id |-> "bus-300-2026su",
      document |-> << "BUS 300 - Strategy" >>,
      metadata |-> [ course_code |-> S("BUS 300"),
                     title |-> S("Strategy"),
                     department |-> S("BUS"), level |-> 300, units |-> 4,
                     elective_score |-> 0, total_capacity |-> 0,
                     has_wqb |-> FALSE, has_prerequisites |-> FALSE,
                     campuses |-> << >>, wqb |-> << >>,
                     delivery_methods |-> << >>,
                     prerequisite_level |-> S("none"),
                     keywords |-> << >> ] ]
>>

\* distance of each Catalog entry to the query embedding, in 1/Scale
DistanceProfiles == {
    << 3000, 3500, 4000, 4500, 5000, 5500 >>,      \* conftest.py distances
    << -2500, 15000, 10000, 0, 7000, 3333 >>,      \* negative, above 1, exactly 0 and 1
    << 4000, 4000, 4000, 4000, 4000, 4000 >>,      \* equal distances
    << 7000, 7001, 4000, 4001, 6666, 2 >>,         \* at and just below the thresholds
    << 4500, 4000, 3500, 3000, 2500, 2000 >>       \* reverse insertion order
}

\* the members of ids in ascending (distance, insertion position) order
RECURSIVE ByDistance(_, _)
ByDistance(ids, profile) ==
    IF ids = {} THEN << >>
    ELSE LET m == CHOOSE i \in ids : \A j \in ids :
                      \/ profile[i] < profile[j]
                      \/ (profile[i] = profile[j] /\ i <= j)
         IN  << [ id |-> Catalog[m].id, document |-> Catalog[m].document,
                  metadata |-> Catalog[m].metadata, distance |-> profile[m] ] >>
             \o ByDistance(ids \ {m}, profile)

SAMPLE_COURSES ==
    ByDistance(1..4, << 3000, 3500, 4000, 4500, 5000, 5500 >>)

Corpora ==
    { SAMPLE_COURSES } \cup
    { ByDistance(ids, p) :
        ids \in { x \in SUBSET (1..Len(Catalog)) : Cardinality(x) <= MaxCorpus },
        p \in DistanceProfiles }

-----------------------------------------------------------------------------
(* query/engine.py: ranking weights, in percent *)

RELEVANCE_WEIGHT == 80
ELECTIVE_WEIGHT == 20
MAX_ELECTIVE_SCORE == 25

-----------------------------------------------------------------------------
(* QueryEngine.build_filters: the where clause is a dict, modelled as a     *)
(* record; {"$and": [...]} is [and |-> <<...>>], {"$lte": v} is [lte |-> v] *)

\* no_prerequisites tested with `is not None` instead of its truth value
build_filters_not_none(f) ==
    LET c1 == IF ~IsNone(f.max_level)
              THEN << [ level |-> [ lte |-> Val(f.max_level) ] ] >>
              ELSE << >>
        c2 == IF ~IsNone(f.no_prerequisites)
              THEN << [ has_prerequisites |-> [ eq |-> FALSE ] ] >>
              ELSE << >>
        conditions == c1 \o c2
    IN  IF Len(conditions) = 0 THEN None
        ELSE IF Len(conditions) = 1 THEN Some(conditions[1])
        ELSE Some([ and |-> conditions ])

build_filters(f) ==
    LET c1 == IF ~IsNone(f.max_level)
              THEN << [ level |-> [ lte |-> Val(f.max_level) ] ] >>
              ELSE << >>
        c2 == IF TruthyBool(f.no_prerequisites)
              THEN << [ has_prerequisites |-> [ eq |-> FALSE ] ] >>
              ELSE << >>
        conditions == c1 \o c2
    IN  IF Len(conditions) = 0 THEN None
        ELSE IF Len(conditions) = 1 THEN Some(conditions[1])
        ELSE Some([ and |-> conditions ])

-----------------------------------------------------------------------------
(* The vector index: collection.query(where, n_results)                    *)

\* one {"field": {"$op": expected}} condition against a metadata record
CheckCondition(meta, condition) ==
    \A field \in DOMAIN condition :
        \A op \in DOMAIN condition[field] :
            /\ (op = "lte" => (field \in DOMAIN meta
                                 /\ meta[field] <= condition[field][op]))
            /\ (op = "eq" => (field \in DOMAIN meta
                                 /\ meta[field] = condition[field][op]))

ApplyWhere(meta, where) ==
    IF "and" \in DOMAIN where
    THEN \A i \in 1..Len(where.and) : CheckCondition(meta, where.and[i])
    ELSE CheckCondition(meta, where)

RECURSIVE SelectWhere(_, _)
SelectWhere(entries, where) ==
    IF Len(entries) = 0 THEN << >>
    ELSE IF IsNone(where) \/ ApplyWhere(Head(entries).metadata, Val(where))
         THEN << Head(entries) >> \o SelectWhere(Tail(entries), where)
         ELSE SelectWhere(Tail(entries), where)

\* the n_results nearest entries that satisfy the where clause, nearest first
CollectionQuery(entries, where, n) ==
    LET matching == SelectWhere(entries, where)
    IN  SubSeq(matching, 1, Min(n, Len(matching)))

-----------------------------------------------------------------------------
(* QueryEngine._post_filter_courses *)

\* the campuses string compared whole, without splitting it
CourseCampuses_unsplit(meta) == << Strip(Get(meta, "campuses", << >>)) >>

CourseCampuses(meta) == StripNonEmpty(Split(Get(meta, "campuses", << >>), S(",")))
CourseWqb(meta) == StripNonEmpty(Split(Get(meta, "wqb", << >>), S(",")))

\* any(x in values for x in wanted)
AnyIn(wanted, values) ==
    \E i \in 1..Len(wanted) : \E j \in 1..Len(values) : wanted[i] = values[j]

\* the department exclusion left out
PassesPostFilter_no_exclusion(course, f) ==
    LET metadata == Get(course, "metadata", << >>)
    IN  /\ (TruthyList(f.campus)
              => AnyIn(Val(f.campus), CourseCampuses(metadata)))
        /\ (TruthyList(f.wqb)
              => AnyIn(Val(f.wqb), CourseWqb(metadata)))

PassesPostFilter(course, f) ==
    LET metadata == Get(course, "metadata", << >>)
    IN  /\ (TruthyList(f.campus)
              => AnyIn(Val(f.campus), CourseCampuses(metadata)))
        /\ (TruthyList(f.wqb)
              => AnyIn(Val(f.wqb), CourseWqb(metadata)))
        /\ (TruthyList(f.exclude_departments)
              => ~(\E i \in 1..Len(Val(f.exclude_departments)) :
                      Val(f.exclude_departments)[i]
                          = Get(metadata, "department", << >>)))

\* the kept courses collected in reverse
RECURSIVE _post_filter_courses_reversed(_, _)
_post_filter_courses_reversed(cs, f) ==
    IF Len(cs) = 0 THEN << >>
    ELSE IF PassesPostFilter(Head(cs), f)
         THEN _post_filter_courses_reversed(Tail(cs), f) \o << Head(cs) >>
         ELSE _post_filter_courses_reversed(Tail(cs), f)

RECURSIVE _post_filter_courses(_, _)
_post_filter_courses(cs, f) ==
    IF Len(cs) = 0 THEN << >>
    ELSE IF PassesPostFilter(Head(cs), f)
         THEN << Head(cs) >> \o _post_filter_courses(Tail(cs), f)
         ELSE _post_filter_courses(Tail(cs), f)

-----------------------------------------------------------------------------
(* QueryEngine.search_courses *)

has_list_filters(f) ==
    TruthyList(f.campus) \/ TruthyList(f.wqb) \/ TruthyList(f.exclude_departments)

has_scalar_filters(f) ==
    (~IsNone(f.max_level)) \/ TruthyBool(f.no_prerequisites)

\* the scalar tier tested before the list tier
fetch_count_scalar_first(f, n) ==
    IF has_scalar_filters(f) THEN n * 5
    ELSE IF has_list_filters(f) THEN Max(200, n * 20)
    ELSE n

fetch_count(f, n) ==
    IF has_list_filters(f) THEN Max(200, n * 20)
    ELSE IF has_scalar_filters(f) THEN n * 5
    ELSE n

\* without the clamp
relevance_score_unclamped(distance) == Scale - distance

\* max(0, min(1, 1 - distance))
relevance_score(distance) == Max(0, Min(Scale, Scale - distance))

\* the elective term subtracted instead of added
combined_score_minus(relevance, elective) ==
    RELEVANCE_WEIGHT * relevance * MAX_ELECTIVE_SCORE
        - ELECTIVE_WEIGHT * elective * Scale

\* RELEVANCE_WEIGHT * relevance + ELECTIVE_WEIGHT * (elective / MAX_ELECTIVE_SCORE),
\* multiplied by 100 * MAX_ELECTIVE_SCORE * Scale to stay in the integers
combined_score(relevance, elective) ==
    RELEVANCE_WEIGHT * relevance * MAX_ELECTIVE_SCORE
        + ELECTIVE_WEIGHT * elective * Scale

\* the loop over results["ids"][0]
ToCourses(results) ==
    [ i \in 1..Len(results) |->
        LET metadata == results[i].metadata
            rel == relevance_score(results[i].distance)
        IN  [ id |-> results[i].id,
              document |-> results[i].document,
              metadata |-> metadata,
              relevance_score |-> rel,
              combined_score |->
                  combined_score(rel, Get(metadata, "elective_score", 0)) ] ]

\* a descending sort that puts a new element before its equals
RECURSIVE InsertDesc_before_equals(_, _)
InsertDesc_before_equals(sorted, c) ==
    IF Len(sorted) = 0 THEN << c >>
    ELSE IF Head(sorted).combined_score > c.combined_score
         THEN << Head(sorted) >> \o InsertDesc_before_equals(Tail(sorted), c)
         ELSE << c >> \o sorted

\* list.sort(key=combined_score, reverse=True): stable, descending
RECURSIVE InsertDesc(_, _)
InsertDesc(sorted, c) ==
    IF Len(sorted) = 0 THEN << c >>
    ELSE IF Head(sorted).combined_score >= c.combined_score
         THEN << Head(sorted) >> \o InsertDesc(Tail(sorted), c)
         ELSE << c >> \o sorted

RECURSIVE SortDesc(_)
SortDesc(cs) ==
    IF Len(cs) = 0 THEN << >>
    ELSE InsertDesc(SortDesc(SubSeq(cs, 1, Len(cs) - 1)), cs[Len(cs)])

\* the widest limit asked for whatever the filters
IndexQuery_wide(f, n) ==
    [ where |-> build_filters(f), n_results |-> Max(200, n * 20) ]

\* the arguments of the single collection.query call
IndexQuery(f, n) ==
    [ where |-> build_filters(f), n_results |-> fetch_count(f, n) ]

search_courses(entries, f, n) ==
    LET q == IndexQuery(f, n)
        results == CollectionQuery(entries, q.where, q.n_results)
        found == ToCourses(results)
        kept == _post_filter_courses(found, f)
        ranked == SortDesc(kept)
    IN  SubSeq(ranked, 1, Min(n, Len(ranked)))

-----------------------------------------------------------------------------
(* The language-model and embedding services *)

\* JSON values as json.loads returns them: None, str, int, list, dict
JNull == [ kind |-> "null" ]
JString(s) == [ kind |-> "string", value |-> s ]
JNumber(n) == [ kind |-> "number", value |-> n ]
JArray(items) == [ kind |-> "array", value |-> items ]
JObject(fields) == [ kind |-> "object", value |-> fields ]

\* the texts a reply may carry with what json.loads makes of each; a text is
\* a str whose atoms are the JSON tokens, and a text not listed is not JSON
JsonTexts == <<
    [ text |-> << "{", "}" >>, loads |-> JObject(<< >>) ],
    [ text |-> << "{", "topics", ":", "[", "programming", ",", "software", ",",
                  "coding", "]", ",", "interpretation", ":",
                  "Looking for programming courses", "}" >>,
      loads |-> JObject([ topics |-> JArray(<< JString(S("programming")),
                                               JString(S("software")),
                                               JString(S("coding")) >>),
                          interpretation |->
                              JString(S("Looking for programming courses")) ]) ],
    [ text |-> << "{", "topics", ":", "[", "ethics", "]", "}" >>,
      loads |-> JObject([ topics |-> JArray(<< JString(S("ethics")) >>) ]) ],
    [ text |-> << "{", "interpretation", ":", "Looking for ethics courses",
                  "}" >>,
      loads |-> JObject([ interpretation |->
                              JString(S("Looking for ethics courses")) ]) ],
    [ text |-> << "{", "topics", ":", "ethics", "}" >>,
      loads |-> JObject([ topics |-> JString(S("ethics")) ]) ],
    [ text |-> << "{", "topics", ":", "null", "}" >>,
      loads |-> JObject([ topics |-> JNull ]) ],
    [ text |-> << "{", "topics", ":", "[", "]", ",", "interpretation", ":",
                  "null", "}" >>,
      loads |-> JObject([ topics |-> JArray(<< >>), interpretation |-> JNull ]) ],
    [ text |-> << "[", "programming", ",", "software", "]" >>,
      loads |-> JArray(<< JString(S("programming")), JString(S("software")) >>) ],
    [ text |-> << "[", "]" >>, loads |-> JArray(<< >>) ],
    [ text |-> << "\"", "programming", "\"" >>, loads |-> JString(S("programming")) ],
    [ text |-> << "42" >>, loads |-> JNumber(42) ],
    [ text |-> << "null" >>, loads |-> JNull ]
>>

\* json.loads(content); kind "error" stands for json.JSONDecodeError
json_loads(content) ==
    IF \E i \in 1..Len(JsonTexts) : JsonTexts[i].text = content
    THEN JsonTexts[CHOOSE i \in 1..Len(JsonTexts) :
                       JsonTexts[i].text = content].loads
    ELSE [ kind |-> "error" ]

\* texts that are not JSON: prose, a labelled object, a truncated object
ProseTexts == {
    << "Here", " ", "are", " ", "the", " ", "topics" >>,
    << "json", ":", "\n", "{", "}" >>,
    << "{", "topics", ":", "[", "programming" >>
}

\* a reply of gemini.aio.models.generate_content: the call raises, or returns a
\* response whose .text is None or a str
ModelResponses ==
    { [ raises |-> TRUE ],
      [ raises |-> FALSE, text |-> None ],
      [ raises |-> FALSE, text |-> Some(<< >>) ] }
    \cup { [ raises |-> FALSE, text |-> Some(JsonTexts[i].text) ] :
                i \in 1..Len(JsonTexts) }
    \cup { [ raises |-> FALSE, text |-> Some(t) ] : t \in ProseTexts }

\* the replies the recommend pipeline is run against: a failed call, the
\* expected object, prose, and a JSON array
InterpretReplies == {
    [ raises |-> TRUE ],
    [ raises |-> FALSE,
      text |-> Some(<< "{", "topics", ":", "[", "programming", ",", "software",
                       ",", "coding", "]", ",", "interpretation", ":",
                       "Looking for programming courses", "}" >>) ],
    [ raises |-> FALSE,
      text |-> Some(<< "Here", " ", "are", " ", "the", " ", "topics" >>) ],
    [ raises |-> FALSE,
      text |-> Some(<< "[", "programming", ",", "software", "]" >>) ]
}

MatchReplies == {
    [ raises |-> TRUE ],
    [ raises |-> FALSE, text |-> Some(S("Covers what you asked for.")) ]
}

\* pydantic's check of a list[str] field
IsStrList(v) ==
    /\ v.kind = "array"
    /\ \A i \in 1..Len(v.value) : v.value[i].kind = "string"

\* QueryEngine.interpret_query: [raised, value]
interpret_query(q, reply) ==
    IF reply.raises THEN [ raised |-> TRUE ]
    ELSE
    LET \* content = response.text or "{}"
        content == IF (~IsNone(reply.text)) /\ Len(Val(reply.text)) > 0
                   THEN Val(reply.text) ELSE << "{", "}" >>
        data == json_loads(content)
    IN  IF data.kind = "error"
        \* except json.JSONDecodeError
        THEN [ raised |-> FALSE,
               value |-> [ topics |-> << q >>,
                           interpretation |->
                               S("Looking for courses related to: ") \o q ] ]
        \* data.get on None, a str, an int or a list: AttributeError, not caught
        ELSE IF data.kind # "object" THEN [ raised |-> TRUE ]
        ELSE
        LET topics == Get(data.value, "topics", JArray(<< >>))
            text == Get(data.value, "interpretation", JString(<< >>))
        IN  \* QueryInterpretation(...): pydantic ValidationError, not caught
            IF ~IsStrList(topics) \/ text.kind # "string"
            THEN [ raised |-> TRUE ]
            ELSE [ raised |-> FALSE,
                   value |-> [ topics |-> [ i \in 1..Len(topics.value) |->
                                              topics.value[i].value ],
                               interpretation |-> text.value ] ]

\* QueryEngine.generate_match_reason: [raised, value]
generate_match_reason(reply) ==
    IF reply.raises THEN [ raised |-> TRUE ]
    ELSE [ raised |-> FALSE,
           value |-> IF (~IsNone(reply.text)) /\ Len(Val(reply.text)) > 0
                     THEN Val(reply.text)
                     ELSE S("Matches your search interests.") ]

-----------------------------------------------------------------------------
(* QueryEngine.recommend *)

\* the comparison turned around
RECURSIVE Threshold_inverted(_, _)
Threshold_inverted(cs, m) ==
    IF Len(cs) = 0 THEN << >>
    ELSE IF Head(cs).relevance_score <= m
         THEN << Head(cs) >> \o Threshold_inverted(Tail(cs), m)
         ELSE Threshold_inverted(Tail(cs), m)

\* [c for c in candidates if c["relevance_score"] >= min_relevance]
RECURSIVE Threshold(_, _)
Threshold(cs, m) ==
    IF Len(cs) = 0 THEN << >>
    ELSE IF Head(cs).relevance_score >= m
         THEN << Head(cs) >> \o Threshold(Tail(cs), m)
         ELSE Threshold(Tail(cs), m)

\* the loop run over every candidate
TopK_all(cs, k) == cs

\* candidates[:top_k]
TopK(cs, k) == SubSeq(cs, 1, Min(k, Len(cs)))

\* the stored string split whether or not it is empty
ParseList_unguarded(metadata, key) ==
    Split(Get(metadata, key, << >>), S(","))

\* metadata.get(key, "").split(",") if metadata.get(key) else []
ParseList(metadata, key) ==
    IF Len(Get(metadata, key, << >>)) > 0
    THEN Split(Get(metadata, key, << >>), S(","))
    ELSE << >>

\* the second "\n\n"-separated part of the document, "" if there is none
ExtractDescription(document) ==
    IF Contains(document, << "\n", "\n" >>)
    THEN LET parts == Split(document, << "\n", "\n" >>)
         IN  IF Len(parts) >= 2 THEN parts[2] ELSE << >>
    ELSE << >>

\* round(x, 3) of a score in 1/Scale units: to the nearest 1/1000, ties to even
Round3(x) ==
    LET unit == Scale \div 1000
        lo == (x \div unit) * unit
        rest == x - lo
    IN  IF 2 * rest < unit THEN lo
        ELSE IF 2 * rest > unit THEN lo + unit
        ELSE IF (lo \div unit) % 2 = 0 THEN lo ELSE lo + unit

\* the CourseResult built for one candidate
CourseResult(candidate, match_reason) ==
    LET metadata == candidate.metadata
        instructors == ParseList(metadata, "instructors")
    IN  [ course_code |-> Get(metadata, "course_code", << >>),
          title |-> Get(metadata, "title", << >>),
          description |-> ExtractDescription(Get(candidate, "document", << >>)),
          campus |-> ParseList(metadata, "campuses"),
          wqb |-> ParseList(metadata, "wqb"),
          units |-> Get(metadata, "units", 0),
          prerequisites |-> Get(metadata, "prerequisites_raw", << >>),
          has_prerequisites |-> Get(metadata, "has_prerequisites", FALSE),
          instructor |-> IF Len(instructors) > 0 THEN Strip(instructors[1])
                         ELSE << >>,
          delivery_methods |-> ParseList(metadata, "delivery_methods"),
          relevance_score |-> Round3(candidate.relevance_score),
          match_reason |-> match_reason ]

-----------------------------------------------------------------------------
(* The requests explored *)

Queries == { S("programming") }

CampusOptions ==
    { None, Some(<< >>), Some(<< S("Vancouver") >>),
      Some(<< S("Burnaby"), S("Surrey") >>) }
WqbOptions == { None, Some(<< S("W"), S("B-Hum") >>), Some(<< S("Q") >>) }
MaxLevelOptions == { None, Some(100), Some(200) }
NoPrerequisitesOptions == { None, Some(FALSE), Some(TRUE) }
ExcludeOptions == { None, Some(<< S("CMPT") >>) }

Filters ==
    [ campus : CampusOptions, wqb : WqbOptions, max_level : MaxLevelOptions,
      no_prerequisites : NoPrerequisitesOptions,
      exclude_departments : ExcludeOptions ]

\* QueryFilters(): every field None
NoFilters ==
    [ campus |-> None, wqb |-> None, max_level |-> None,
      no_prerequisites |-> None, exclude_departments |-> None ]

\* number of QueryFilters fields that are not None
ActiveCount(f) ==
    Len(f.campus) + Len(f.wqb) + Len(f.max_level) + Len(f.no_prerequisites)
        + Len(f.exclude_departments)

\* the filters recommend is explored with: each field None or active, at most
\* MaxActiveFilters of them active (search_courses is explored with all)
RecommendFilters ==
    { f \in Filters :
        /\ f.campus # Some(<< >>)
        /\ f.no_prerequisites # Some(FALSE)
        /\ ActiveCount(f) <= MaxActiveFilters }

TopKs == { 1, 2, 5 }
MinRelevances == { 3000, 6000 }
NResults == { 1, 3, 11 }

-----------------------------------------------------------------------------
(* The state machine *)

\* no offline script is running and the event loop runs no coroutine
NoPipeline ==
    fetcher = << >> /\ preprocessor = << >> /\ transformer = << >> /\ tasks = << >>

Init ==
    /\ NoPipeline
    /\ corpus \in Corpora
    /\ call = "none"
    /\ pc = "idle"
    /\ query = << >>
    /\ filters = NoFilters
    /\ top_k = 0
    /\ min_relevance = 0
    /\ n_results = 0
    /\ interpretation = None
    /\ candidates = << >>
    /\ courses = << >>
    /\ outcome = "none"
    /\ queries = << >>
    /\ reasonCalls = << >>
    /\ stages = << >>
    /\ response = None
    /\ env = None
    /\ engine = None
    /\ request = None
    /\ http = None
    /\ processed = None
    /\ indexer = None
    /\ collection = None
    /\ latest = { }

\* an exception leaves recommend
Raise ==
    /\ pc' = "failed"
    /\ outcome' = "raised"

\* a caller invokes engine.recommend(query, filters, top_k, min_relevance)
CallRecommend ==
    /\ UNCHANGED << pipelineVars, tasks >>
    /\ call = "none"
    /\ UNCHANGED << response, serviceVars, indexVars >>
    /\ \E q \in Queries, f \in RecommendFilters, k \in TopKs, m \in MinRelevances :
          /\ query' = q
          /\ filters' = f
          /\ top_k' = k
          /\ min_relevance' = m
    /\ call' = "recommend"
    /\ pc' = "start"
    /\ UNCHANGED << corpus, n_results, interpretation, candidates, courses,
                    outcome, queries, reasonCalls, stages >>

\* Step 1: interpretation = await self.interpret_query(query)
InterpretQuery ==
    /\ UNCHANGED << pipelineVars, tasks >>
    /\ call = "recommend" /\ pc = "start"
    /\ UNCHANGED << response, serviceVars, indexVars >>
    /\ \E reply \in InterpretReplies :
          LET r == interpret_query(query, reply)
          IN  IF r.raised
              THEN Raise /\ UNCHANGED << interpretation, stages >>
              ELSE /\ interpretation' = Some(r.value)
                   /\ stages' = Append(stages, "interpret")
                   /\ pc' = "interpreted"
                   /\ UNCHANGED outcome
    /\ UNCHANGED << corpus, call, query, filters, top_k, min_relevance,
                    n_results, candidates, courses, queries, reasonCalls >>

\* the embedding not made to wait for the interpretation
EmbedQuery_unordered ==
    /\ UNCHANGED << pipelineVars, tasks >>
    /\ call = "recommend" /\ pc \in { "start", "interpreted" }
    /\ UNCHANGED << response, serviceVars, indexVars >>
    /\ \E raises \in BOOLEAN :
          IF raises
          THEN Raise /\ UNCHANGED stages
          ELSE /\ stages' = Append(stages, "embed")
               /\ pc' = "embedded"
               /\ UNCHANGED outcome
    /\ UNCHANGED << corpus, call, query, filters, top_k, min_relevance,
                    n_results, interpretation, candidates, courses, queries,
                    reasonCalls >>

\* Step 2: query_embedding = await self.embed_query(" ".join(topics))
EmbedQuery ==
    /\ UNCHANGED << pipelineVars, tasks >>
    /\ call = "recommend" /\ pc = "interpreted"
    /\ UNCHANGED << response, serviceVars, indexVars >>
    /\ \E raises \in BOOLEAN :
          IF raises
          THEN Raise /\ UNCHANGED stages
          ELSE /\ stages' = Append(stages, "embed")
               /\ pc' = "embedded"
               /\ UNCHANGED outcome
    /\ UNCHANGED << corpus, call, query, filters, top_k, min_relevance,
                    n_results, interpretation, candidates, courses, queries,
                    reasonCalls >>

\* Step 3: candidates = self.search_courses(embedding, filters, top_k * 2)
SearchCourses ==
    /\ UNCHANGED << pipelineVars, tasks >>
    /\ call = "recommend" /\ pc = "embedded"
    /\ UNCHANGED << response, serviceVars, indexVars >>
    /\ n_results' = top_k * 2
    /\ queries' = Append(queries, IndexQuery(filters, top_k * 2))
    /\ \E raises \in BOOLEAN :
          IF raises
          THEN Raise /\ UNCHANGED << candidates, stages >>
          ELSE /\ candidates' = search_courses(corpus, filters, top_k * 2)
               /\ stages' = Append(stages, "retrieve")
               /\ pc' = "retrieved"
               /\ UNCHANGED outcome
    /\ UNCHANGED << corpus, call, query, filters, top_k, min_relevance,
                    interpretation, courses, reasonCalls >>

\* Step 4: drop the candidates below min_relevance
ThresholdCandidates ==
    /\ UNCHANGED << pipelineVars, tasks >>
    /\ call = "recommend" /\ pc = "retrieved"
    /\ UNCHANGED << response, serviceVars, indexVars >>
    /\ candidates' = Threshold(candidates, min_relevance)
    /\ stages' = Append(stages, "threshold")
    /\ pc' = "thresholded"
    /\ UNCHANGED << corpus, call, query, filters, top_k, min_relevance,
                    n_results, interpretation, courses, outcome, queries,
                    reasonCalls >>

\* Step 5, one iteration of `for candidate in candidates[:top_k]`
ExplainCandidate ==
    /\ UNCHANGED << pipelineVars, tasks >>
    /\ call = "recommend" /\ pc = "thresholded"
    /\ UNCHANGED << response, serviceVars, indexVars >>
    /\ Len(courses) < Len(TopK(candidates, top_k))
    /\ LET candidate == TopK(candidates, top_k)[Len(courses) + 1]
       IN  /\ reasonCalls' = Append(reasonCalls, candidate.id)
           /\ \E reply \in MatchReplies :
                 LET r == generate_match_reason(reply)
                 IN  IF r.raised
                     THEN Raise /\ UNCHANGED courses
                     ELSE /\ courses' =
                                Append(courses, CourseResult(candidate, r.value))
                          /\ UNCHANGED << pc, outcome >>
    /\ UNCHANGED << corpus, call, query, filters, top_k, min_relevance,
                    n_results, interpretation, candidates, queries, stages >>

\* the loop is exhausted: return RecommendResponse(success=True, ...)
Respond ==
    /\ UNCHANGED << pipelineVars, tasks >>
    /\ call = "recommend" /\ pc = "thresholded"
    /\ UNCHANGED << response, serviceVars, indexVars >>
    /\ Len(courses) = Len(TopK(candidates, top_k))
    /\ stages' = stages \o << "explain", "done" >>
    /\ pc' = "done"
    /\ outcome' = "response"
    /\ UNCHANGED << corpus, call, query, filters, top_k, min_relevance,
                    n_results, interpretation, candidates, courses, queries,
                    reasonCalls >>

\* a caller invokes engine.search_courses(embedding, filters, n_results)
CallSearchCourses ==
    /\ UNCHANGED << pipelineVars, tasks >>
    /\ call = "none"
    /\ UNCHANGED << response, serviceVars, indexVars >>
    /\ \E f \in Filters, n \in NResults :
          /\ filters' = f
          /\ n_results' = n
          /\ queries' = Append(queries, IndexQuery(f, n))
          /\ candidates' = search_courses(corpus, f, n)
    /\ call' = "search"
    /\ pc' = "done"
    /\ outcome' = "result"
    /\ UNCHANGED << corpus, query, top_k, min_relevance, interpretation,
                    courses, reasonCalls, stages >>

Next ==
    \/ CallRecommend
    \/ InterpretQuery
    \/ EmbedQuery
    \/ SearchCourses
    \/ ThresholdCandidates
    \/ ExplainCandidate
    \/ Respond
    \/ CallSearchCourses

Spec == Init /\ [][Next]_vars

-----------------------------------------------------------------------------
(* Properties *)

\* candidates holds exactly what search_courses returned
Returned ==
    \/ (call = "recommend" /\ pc = "retrieved")
    \/ (call = "search" /\ pc = "done")

\* the collection entry with a given id / course code (both unique)
EntryById(id) == CHOOSE e \in SeqToSet(corpus) : e.id = id
EntryByCode(code) ==
    CHOOSE e \in SeqToSet(corpus) : e.metadata.course_code = code

\* the values carried by a comma-joined metadata string
ValuesOf(meta, key) ==
    { Strip(part) : part \in SeqToSet(Split(Get(meta, key, << >>), S(","))) }
        \ { << >> }

SatisfiesFilters(meta, f) ==
    /\ ((~IsNone(f.max_level)) => meta.level <= Val(f.max_level))
    /\ (f.no_prerequisites = Some(TRUE) => meta.has_prerequisites = FALSE)
    /\ (TruthyList(f.campus)
          => ValuesOf(meta, "campuses") \cap SeqToSet(Val(f.campus)) # {})
    /\ (TruthyList(f.wqb)
          => ValuesOf(meta, "wqb") \cap SeqToSet(Val(f.wqb)) # {})
    /\ (TruthyList(f.exclude_departments)
          => meta.department \notin SeqToSet(Val(f.exclude_departments)))

\* C1: every course search_courses returns satisfies every active filter at
\* once: level <= max_level, has_prerequisites = false under no_prerequisites,
\* a campus in filters.campus, a WQB code in filters.wqb, and a department
\* outside exclude_departments.
C1_ReturnedCoursesSatisfyFilters ==
    Returned =>
        \A i \in 1..Len(candidates) :
            SatisfiesFilters(candidates[i].metadata, filters)

\* all five filters active, some entries returned and some eliminated
C1_Witness ==
    /\ call = "search" /\ pc = "done"
    /\ ~IsNone(filters.max_level)
    /\ TruthyBool(filters.no_prerequisites)
    /\ TruthyList(filters.campus)
    /\ TruthyList(filters.wqb)
    /\ TruthyList(filters.exclude_departments)
    /\ Len(candidates) > 0
    /\ Len(candidates) < Len(corpus)
    /\ n_results >= Len(corpus)

CourseCodes == [ i \in 1..Len(courses) |-> courses[i].course_code ]

OnlyWqb == [ NoFilters EXCEPT !.wqb = Some(<< S("W"), S("B-Hum") >>) ]
OnlyCampus == [ NoFilters EXCEPT !.campus = Some(<< S("Vancouver") >>) ]

\* C2: on the four-course fixture with top_k = 5 and min_relevance = 0.30,
\* recommend with wqb = [W, B-Hum] returns exactly PHIL 100W, with
\* campus = [Vancouver] returns exactly PHIL 100W, and with
\* exclude_departments = [CMPT] never returns CMPT 120.
C2_FixtureScenario ==
    (/\ corpus = SAMPLE_COURSES
     /\ outcome = "response"
     /\ top_k = 5
     /\ min_relevance = 3000)
    => /\ (filters = OnlyWqb => CourseCodes = << S("PHIL 100W") >>)
       /\ (filters = OnlyCampus => CourseCodes = << S("PHIL 100W") >>)
       /\ (filters.exclude_departments = Some(<< S("CMPT") >>)
             => \A i \in 1..Len(courses) :
                   courses[i].course_code # S("CMPT 120"))

\* the campus request answered on the fixture, its one course explained
C2_Witness ==
    /\ corpus = SAMPLE_COURSES
    /\ outcome = "response"
    /\ top_k = 5
    /\ min_relevance = 3000
    /\ filters = OnlyCampus
    /\ Len(courses) = 1
    /\ courses[1].campus = << S("Burnaby"), S("Vancouver") >>
    /\ Len(queries) = 1 /\ queries[1].n_results = 200

\* C3: every candidate search_courses returns and every course of a recommend
\* response has a relevance score between 0 and 1, whatever the distance.
C3_RelevanceWithinUnitInterval ==
    /\ \A i \in 1..Len(candidates) :
          /\ 0 <= candidates[i].relevance_score
          /\ candidates[i].relevance_score <= Scale
    /\ \A i \in 1..Len(courses) :
          /\ 0 <= courses[i].relevance_score
          /\ courses[i].relevance_score <= Scale

\* one returned candidate lies at a negative distance, another beyond 1
C3_Witness ==
    /\ Returned
    /\ \E i \in 1..Len(candidates) : EntryById(candidates[i].id).distance < 0
    /\ \E i \in 1..Len(candidates) :
          EntryById(candidates[i].id).distance > Scale

ElectiveOf(c) == Get(c.metadata, "elective_score", 0)

\* C4: combined_score = 0.80 * relevance_score + 0.20 * (elective_score / 25)
\* (here times 100 * 25 * Scale), so among the candidates of one search, with
\* equal elective score a higher relevance never gives a lower combined score,
\* and with equal relevance a higher elective score never gives a lower one.
C4_CombinedScoreMonotone ==
    Returned =>
        /\ \A i \in 1..Len(candidates) :
              candidates[i].combined_score
                  = 2000 * candidates[i].relevance_score
                      + 20 * Scale * ElectiveOf(candidates[i])
        /\ \A i, j \in 1..Len(candidates) :
              /\ (/\ ElectiveOf(candidates[i]) = ElectiveOf(candidates[j])
                  /\ candidates[i].relevance_score
                         > candidates[j].relevance_score)
                 => candidates[i].combined_score >= candidates[j].combined_score
              /\ (/\ candidates[i].relevance_score
                         = candidates[j].relevance_score
                  /\ ElectiveOf(candidates[i]) > ElectiveOf(candidates[j]))
                 => candidates[i].combined_score >= candidates[j].combined_score

\* one pair differs in relevance only, another in elective score only
C4_Witness ==
    /\ Returned
    /\ \E i, j \in 1..Len(candidates) :
          /\ ElectiveOf(candidates[i]) = ElectiveOf(candidates[j])
          /\ candidates[i].relevance_score > candidates[j].relevance_score
    /\ \E i, j \in 1..Len(candidates) :
          /\ candidates[i].relevance_score = candidates[j].relevance_score
          /\ ElectiveOf(candidates[i]) > ElectiveOf(candidates[j])

\* position of an entry in the order the index returns entries
IndexPosition(id) == CHOOSE i \in 1..Len(corpus) : corpus[i].id = id

\* the entries the index returned that pass the list filters, before ranking
Survivors ==
    _post_filter_courses(
        ToCourses(CollectionQuery(corpus, queries[1].where,
                                  queries[1].n_results)),
        filters)

ReturnedIds == { candidates[i].id : i \in 1..Len(candidates) }

\* C5: the list search_courses(n) returns is in non-increasing combined_score
\* order, equal scores keep the order in which the index returned them, and the
\* list is the first n of the ranked survivors (all of them if fewer).
C5_SortedStableTruncated ==
    Returned =>
        /\ \A i, j \in 1..Len(candidates) :
              i < j =>
                 /\ candidates[i].combined_score >= candidates[j].combined_score
                 /\ (candidates[i].combined_score = candidates[j].combined_score
                       => IndexPosition(candidates[i].id)
                              < IndexPosition(candidates[j].id))
        /\ Len(candidates) = Min(n_results, Len(Survivors))
        /\ ReturnedIds \subseteq { Survivors[i].id : i \in 1..Len(Survivors) }
        /\ \A s \in 1..Len(Survivors) :
              Survivors[s].id \notin ReturnedIds =>
                 \A i \in 1..Len(candidates) :
                    \/ candidates[i].combined_score > Survivors[s].combined_score
                    \/ /\ candidates[i].combined_score
                              = Survivors[s].combined_score
                       /\ IndexPosition(candidates[i].id)
                              < IndexPosition(Survivors[s].id)

\* the result was cut to n_results, two returned entries tie, and ranking kept an
\* entry while a nearer survivor was cut off
C5_Witness ==
    /\ Returned
    /\ Len(Survivors) > n_results
    /\ \E i, j \in 1..Len(candidates) :
          i < j /\ candidates[i].combined_score = candidates[j].combined_score
    /\ \E i \in 1..Len(candidates), s \in 1..Len(Survivors) :
          /\ Survivors[s].id \notin ReturnedIds
          /\ IndexPosition(Survivors[s].id) < IndexPosition(candidates[i].id)

ListFilterActive ==
    \/ (~IsNone(filters.campus) /\ Val(filters.campus) # << >>)
    \/ (~IsNone(filters.wqb) /\ Val(filters.wqb) # << >>)
    \/ (~IsNone(filters.exclude_departments)
          /\ Val(filters.exclude_departments) # << >>)

ScalarFilterActive ==
    \/ ~IsNone(filters.max_level)
    \/ filters.no_prerequisites = Some(TRUE)

\* C6: search_courses queries the index exactly once per call, asking for
\* n_results entries with no filter active, n_results * 5 with only scalar
\* filters active, and max(200, n_results * 20) with any list filter active.
C6_OneQueryWithTieredLimit ==
    /\ Len(queries) <= 1
    /\ Returned =>
          /\ Len(queries) = 1
          /\ queries[1].n_results =
                IF ListFilterActive
                THEN (IF n_results * 20 > 200 THEN n_results * 20 ELSE 200)
                ELSE IF ScalarFilterActive THEN n_results * 5
                ELSE n_results

\* a list filter and a scalar filter active together, above the floor of 200
C6_Witness ==
    /\ Returned
    /\ ListFilterActive /\ ScalarFilterActive
    /\ Len(queries) = 1
    /\ queries[1].n_results = 220

LevelCondition == [ level |-> [ lte |-> Val(filters.max_level) ] ]
PrerequisiteCondition == [ has_prerequisites |-> [ eq |-> FALSE ] ]

\* C7: build_filters returns None with no scalar filter active, the single
\* condition level <= max_level or has_prerequisites == false with one active,
\* and the AND of the two with both; list filters add nothing to it.
C7_WhereClauseIsScalarPredicate ==
    Len(queries) >= 1 =>
        LET where == queries[1].where
            byLevel == ~IsNone(filters.max_level)
            byPrerequisite == (filters.no_prerequisites = Some(TRUE))
        IN  /\ ((~byLevel /\ ~byPrerequisite) => where = None)
            /\ ((byLevel /\ ~byPrerequisite) => where = Some(LevelCondition))
            /\ ((~byLevel /\ byPrerequisite)
                  => where = Some(PrerequisiteCondition))
            /\ ((byLevel /\ byPrerequisite)
                  => /\ Len(where) = 1
                     /\ DOMAIN Val(where) = { "and" }
                     /\ Len(Val(where).and) = 2
                     /\ SeqToSet(Val(where).and)
                            = { LevelCondition, PrerequisiteCondition })

\* every list filter active: once with both scalar filters, giving an AND
C7_Witness ==
    /\ Len(queries) = 1
    /\ TruthyList(filters.campus)
    /\ TruthyList(filters.wqb)
    /\ TruthyList(filters.exclude_departments)
    /\ ~IsNone(filters.max_level)
    /\ filters.no_prerequisites = Some(TRUE)
    /\ queries[1].where
           = Some([ and |-> << LevelCondition, PrerequisiteCondition >> ])

\* relevance and combined score of a collection entry, from its distance
EntryRelevance(e) ==
    IF e.distance < 0 THEN Scale
    ELSE IF e.distance > Scale THEN 0
    ELSE Scale - e.distance

EntryCombined(e) ==
    2000 * EntryRelevance(e) + 20 * Scale * Get(e.metadata, "elective_score", 0)

\* C8: recommend returns at most top_k courses, and every course it returns (or
\* has built so far) comes from an entry whose relevance is >= min_relevance.
C8_AtMostTopKAboveThreshold ==
    call = "recommend" =>
        /\ Len(courses) <= top_k
        /\ \A i \in 1..Len(courses) :
              EntryRelevance(EntryByCode(courses[i].course_code))
                  >= min_relevance

\* with no filter, the whole collection was retrieved, an entry fell below the
\* threshold, and more than top_k candidates survived it
C8_Witness ==
    /\ outcome = "response"
    /\ filters = NoFilters
    /\ Len(corpus) <= n_results
    /\ \E i \in 1..Len(corpus) : EntryRelevance(corpus[i]) < min_relevance
    /\ Len(candidates) > top_k
    /\ Len(courses) = top_k

NoDuplicates(s) == \A i, j \in 1..Len(s) : i # j => s[i] # s[j]

\* C9: generate_match_reason is invoked once for each course of the response
\* and for no other candidate, at most top_k times, only after thresholding and
\* for the first top_k survivors; the response keeps the Retriever's rank order.
C9_ExplainOnlyTheSurfacedCourses ==
    /\ Len(reasonCalls) <= top_k
    /\ NoDuplicates(reasonCalls)
    /\ Len(reasonCalls) > 0 =>
          /\ \E s \in 1..Len(stages) : stages[s] = "threshold"
          /\ Len(reasonCalls) <= Len(candidates)
          /\ \A i \in 1..Len(reasonCalls) :
                /\ reasonCalls[i] = candidates[i].id
                /\ candidates[i].relevance_score >= min_relevance
    /\ outcome = "response" =>
          /\ Len(reasonCalls) = Len(courses)
          /\ Len(courses) = Min(top_k, Len(candidates))
          /\ \A i \in 1..Len(courses) :
                courses[i].course_code
                    = EntryById(reasonCalls[i]).metadata.course_code
          /\ \A i, j \in 1..Len(courses) :
                i < j =>
                   EntryCombined(EntryByCode(courses[i].course_code))
                       >= EntryCombined(EntryByCode(courses[j].course_code))

\* top_k calls were made, more candidates had survived, and the response lists
\* a farther entry before a nearer one
C9_Witness ==
    /\ outcome = "response"
    /\ Len(reasonCalls) = top_k
    /\ Len(candidates) > top_k
    /\ \E i, j \in 1..Len(courses) :
          /\ i < j
          /\ IndexPosition(reasonCalls[i]) > IndexPosition(reasonCalls[j])

Pipeline == << "interpret", "embed", "retrieve", "threshold", "explain", "done" >>

IsPrefix(s, t) == Len(s) <= Len(t) /\ s = SubSeq(t, 1, Len(s))

StagesInOrder ==
    call = "recommend" =>
        /\ IsPrefix(stages, Pipeline)
        /\ pc \in { "start", "interpreted", "embedded", "retrieved",
                    "thresholded", "done", "failed" }
        /\ (pc = "start" => Len(stages) = 0)
        /\ (pc = "interpreted" => Len(stages) = 1)
        /\ (pc = "embedded" => Len(stages) = 2)
        /\ (pc = "retrieved" => Len(stages) = 3)
        /\ (pc = "thresholded" => Len(stages) = 4)
        /\ (pc = "done" => stages = Pipeline)
        /\ (pc = "failed" => Len(stages) <= 4)
        /\ (IsNone(interpretation) <=> (Len(stages) = 0))
        /\ (Len(queries) > 0 => Len(stages) >= 2)
        /\ (Len(reasonCalls) > 0 => Len(stages) >= 4)
        /\ (outcome = "response" <=> pc = "done")
        /\ (outcome = "raised" <=> pc = "failed")
        /\ outcome \in { "none", "response", "raised" }

\* C10: a recommend call completes interpret, embed, index retrieval, relevance
\* threshold, explanation and done in that order, each stage once and none
\* before the previous one completed, and ends in one outcome, a response or a
\* raised failure, after which nothing more happens.
C10_LinearPipeline ==
    /\ []StagesInOrder
    /\ [][ /\ IsPrefix(stages, stages')
           /\ (outcome # "none" => UNCHANGED vars) ]_vars

\* a response whose explanation stage made no call
C10_Witness ==
    /\ outcome = "response"
    /\ stages = Pipeline
    /\ Len(candidates) = 0
    /\ Len(reasonCalls) = 0
    /\ Len(queries) = 1

-----------------------------------------------------------------------------
(* States in which a part of the system is at rest *)

\* no call of the engine is in progress and none has been made
NoRequest ==
    /\ call = "none"
    /\ pc = "idle"
    /\ query = << >>
    /\ filters = NoFilters
    /\ top_k = 0
    /\ min_relevance = 0
    /\ n_results = 0
    /\ interpretation = None
    /\ candidates = << >>
    /\ courses = << >>
    /\ outcome = "none"
    /\ queries = << >>
    /\ reasonCalls = << >>
    /\ stages = << >>

\* the API process has not been started
NoService == env = None /\ engine = None /\ request = None /\ http = None

\* the offline pipeline has not been run
NoIndexing ==
    processed = None /\ indexer = None /\ collection = None /\ latest = { }

-----------------------------------------------------------------------------
(* QueryEngine.interpret_query on its own *)

InterpretQueries ==
    { S("programming"), S("ethics"), << "machine", " ", "learning" >>,
      << "art", ",", " ", "history" >> }

InterpretInit ==
    /\ NoPipeline
    /\ corpus = << >>
    /\ call = "interpret"
    /\ pc = "start"
    /\ query \in InterpretQueries
    /\ response \in ModelResponses
    /\ filters = NoFilters
    /\ top_k = 0
    /\ min_relevance = 0
    /\ n_results = 0
    /\ interpretation = None
    /\ candidates = << >>
    /\ courses = << >>
    /\ outcome = "none"
    /\ queries = << >>
    /\ reasonCalls = << >>
    /\ stages = << >>
    /\ NoService
    /\ NoIndexing

\* interpretation = await self.interpret_query(query)
Interpret ==
    /\ UNCHANGED << pipelineVars, tasks >>
    /\ call = "interpret" /\ pc = "start"
    /\ LET r == interpret_query(query, response)
       IN  IF r.raised
           THEN /\ pc' = "failed"
                /\ outcome' = "raised"
                /\ UNCHANGED interpretation
           ELSE /\ interpretation' = Some(r.value)
                /\ pc' = "done"
                /\ outcome' = "result"
    /\ UNCHANGED << corpus, call, query, filters, top_k, min_relevance,
                    n_results, candidates, courses, queries, reasonCalls,
                    stages, response, serviceVars, indexVars >>

InterpretNext == Interpret

InterpretSpec == InterpretInit /\ [][InterpretNext]_vars

\* the reply carries the JSON object the prompt asks for
ExpectedObject(reply) ==
    /\ ~reply.raises
    /\ ~IsNone(reply.text)
    /\ json_loads(Val(reply.text)).kind = "object"

\* C11: interpret_query never raises on malformed or unparseable model output:
\* for every response text that is not the expected JSON object (not JSON,
\* empty, or JSON of another shape such as a list or a string) it returns
\* topics = [query] and the templated interpretation string.
C11_MalformedOutputFallsBack ==
    ( /\ call = "interpret" /\ pc # "start"
      /\ ~response.raises
      /\ ~ExpectedObject(response) )
    => /\ outcome = "result"
       /\ interpretation =
            Some([ topics |-> << query >>,
                   interpretation |->
                       S("Looking for courses related to: ") \o query ])

-----------------------------------------------------------------------------
(* The API process: api/main.py, api/dependencies.py, api/routes.py *)

\* query/models.py: the Field constraints of RecommendRequest
query_min_length == 3
query_max_length == 500
top_k_ge == 1
top_k_le == 10

\* truth value of an Optional[str], as in `if not openai_api_key`
TruthyStr(o) == (~IsNone(o)) /\ Len(Val(o)) > 0

\* the vector sizes an embedding model or a stored index may have
Dimensions == { 1536, 3072 }

\* os.getenv for the variables lifespan reads, the collections of the store at
\* CHROMA_PATH, the size of the vectors stored there and of the vectors the
\* embedding model returns
Environments ==
    [ OPENAI_API_KEY : { None, Some(<< >>), Some(S("sk-test")) },
      GOOGLE_API_KEY : { None, Some(<< >>), Some(S("g-test")) },
      COLLECTION_NAME : { None, Some(S("courses_test")) },
      store : { { }, { S("courses_1264") },
                { S("courses_1264"), S("courses_test") } },
      index_dimension : Dimensions,
      embedding_dimension : Dimensions,
      process : { "stopped" } ]

\* get_or_create_collection in the place of get_collection
QueryEngine_init_get_or_create(store, collection_name) ==
    [ raised |-> FALSE, value |-> [ collection_name |-> collection_name ] ]

\* QueryEngine.__init__: chroma_client.get_collection raises for a name the
\* store does not hold
QueryEngine_init(store, collection_name) ==
    IF collection_name \in store
    THEN [ raised |-> FALSE, value |-> [ collection_name |-> collection_name ] ]
    ELSE [ raised |-> TRUE ]

\* the startup half of lifespan: [raised, value], value the engine registered
lifespan(e) ==
    LET collection_name == IF IsNone(e.COLLECTION_NAME) THEN S("courses_1264")
                           ELSE Val(e.COLLECTION_NAME)
    IN  IF ~TruthyStr(e.OPENAI_API_KEY) THEN [ raised |-> TRUE ]
        ELSE IF ~TruthyStr(e.GOOGLE_API_KEY) THEN [ raised |-> TRUE ]
        ELSE QueryEngine_init(e.store, collection_name)

\* the bodies sent to POST /api/recommend; a query is spelled one character
\* per atom, so that Len is len()
ApiQueries ==
    { << "a", "i" >>, << "a", "r", "t" >>,
      [ i \in 1..query_max_length |-> "x" ],
      [ i \in 1..(query_max_length + 1) |-> "x" ] }

ApiFilters ==
    { NoFilters,
      [ NoFilters EXCEPT !.campus = Some(<< S("Mars") >>) ],
      [ NoFilters EXCEPT !.max_level = Some(100) ] }

ApiRequests ==
    [ query : ApiQueries,
      filters : ApiFilters,
      top_k : { top_k_ge - 1, top_k_ge, top_k_le, top_k_le + 1 },
      min_relevance : { -1, 0, 6000, Scale, Scale + 1 } ]

\* the check with max_length left out
RecommendRequest_no_max_length(req) ==
    /\ Len(req.query) >= query_min_length
    /\ req.top_k >= top_k_ge /\ req.top_k <= top_k_le
    /\ req.min_relevance >= 0 /\ req.min_relevance <= Scale

\* pydantic's validation of a RecommendRequest
RecommendRequest(req) ==
    /\ Len(req.query) >= query_min_length
    /\ Len(req.query) <= query_max_length
    /\ req.top_k >= top_k_ge /\ req.top_k <= top_k_le
    /\ req.min_relevance >= 0 /\ req.min_relevance <= Scale

\* str(e) of the exceptions that may leave engine.recommend
ExceptionTexts ==
    { S("Connection error."), S("429 RESOURCE_EXHAUSTED"),
      << "'list'", " ", "object", " ", "has", " ", "no", " ", "attribute",
         " ", "'get'" >> }

\* the answer FastAPI gives for a raised HTTPException
HTTPException(status_code, detail) ==
    [ status |-> status_code, body |-> [ detail |-> detail ] ]

\* the handler without its check for an empty course list
recommend_courses_no_check(raised, e, resp) ==
    IF raised
    THEN HTTPException(500, S("Internal server error: ") \o e)
    ELSE [ status |-> 200, body |-> resp ]

\* what recommend_courses answers once engine.recommend has raised an
\* exception of text e, or returned resp
recommend_courses(raised, e, resp) ==
    IF raised
    THEN HTTPException(500, S("Internal server error: ") \o e)
    ELSE IF Len(resp.courses) = 0
         THEN HTTPException(400,
                << "No courses match your interests with the given filters.",
                   " ", "Try relaxing the constraints." >>)
         ELSE [ status |-> 200, body |-> resp ]

\* dependencies.get_query_engine: RuntimeError while query_engine is None
get_query_engine(e) ==
    IF IsNone(e)
    THEN [ raised |-> TRUE, text |-> S("Query engine not initialized") ]
    ELSE [ raised |-> FALSE, value |-> Val(e) ]

\* dependencies.set_query_engine
set_query_engine(e, new) == Some(new)

\* the instance left in place
clear_query_engine_keeps(e) == e

\* dependencies.clear_query_engine
clear_query_engine(e) == None

\* the collections the service is started on
ApiCorpora == { << >>, SAMPLE_COURSES }

ApiInit ==
    /\ NoPipeline
    /\ corpus \in ApiCorpora
    /\ NoRequest
    /\ response = None
    /\ env \in Environments
    /\ engine = None
    /\ request = None
    /\ http = None
    /\ NoIndexing

\* lifespan up to its yield: the process starts serving, or dies of the
\* exception raised
Startup ==
    /\ UNCHANGED << pipelineVars, tasks >>
    /\ env.process = "stopped"
    /\ LET r == lifespan(env)
       IN  IF r.raised
           THEN /\ env' = [ env EXCEPT !.process = "failed" ]
                /\ UNCHANGED engine
           ELSE /\ engine' = Some(r.value)
                /\ env' = [ env EXCEPT !.process = "serving" ]
    /\ UNCHANGED << corpus, call, pc, query, filters, top_k, min_relevance,
                    n_results, interpretation, candidates, courses, outcome,
                    queries, reasonCalls, stages, response, request, http,
                    indexVars >>

\* lifespan after its yield: clear_query_engine()
Shutdown ==
    /\ UNCHANGED << pipelineVars, tasks >>
    /\ env.process = "serving"
    /\ call = "none" \/ ~IsNone(http)
    /\ engine' = None
    /\ env' = [ env EXCEPT !.process = "exited" ]
    /\ UNCHANGED << corpus, call, pc, query, filters, top_k, min_relevance,
                    n_results, interpretation, candidates, courses, outcome,
                    queries, reasonCalls, stages, response, request, http,
                    indexVars >>

\* POST /api/recommend arrives: the body is validated, then recommend_courses
\* runs up to `await engine.recommend(...)`
PostRecommend ==
    /\ UNCHANGED << pipelineVars, tasks >>
    /\ env.process \in { "serving", "testing" }
    /\ IsNone(request)
    /\ \E req \in ApiRequests :
          /\ request' = Some(req)
          /\ IF ~RecommendRequest(req)
             THEN /\ http' = Some(HTTPException(422, S("validation error")))
                  /\ UNCHANGED << call, pc, query, filters, top_k,
                                  min_relevance >>
             ELSE IF get_query_engine(engine).raised
             THEN /\ http' = Some(recommend_courses(TRUE,
                                    get_query_engine(engine).text, << >>))
                  /\ UNCHANGED << call, pc, query, filters, top_k,
                                  min_relevance >>
             ELSE /\ call' = "recommend"
                  /\ pc' = "start"
                  /\ query' = req.query
                  /\ filters' = req.filters
                  /\ top_k' = req.top_k
                  /\ min_relevance' = req.min_relevance
                  /\ UNCHANGED http
    /\ UNCHANGED << corpus, n_results, interpretation, candidates, courses,
                    outcome, queries, reasonCalls, stages, response, env,
                    engine, indexVars >>

\* Step 3 against the store: collection.query raises for a query vector that
\* has not the size of the vectors the collection holds
SearchIndex ==
    /\ SearchCourses
    /\ (Len(corpus) > 0 /\ env.embedding_dimension # env.index_dimension)
         => outcome' = "raised"

\* engine.recommend has returned or raised: recommend_courses answers
RouteReturn ==
    /\ UNCHANGED << pipelineVars, tasks >>
    /\ call = "recommend"
    /\ outcome \in { "response", "raised" }
    /\ IsNone(http)
    /\ IF outcome = "raised"
       THEN \E e \in ExceptionTexts :
               http' = Some(recommend_courses(TRUE, e, << >>))
       ELSE http' = Some(recommend_courses(FALSE, << >>,
                       [ success |-> TRUE,
                         query_interpretation |->
                             Val(interpretation).interpretation,
                         courses |-> courses ]))
    /\ UNCHANGED << corpus, call, pc, query, filters, top_k, min_relevance,
                    n_results, interpretation, candidates, courses, outcome,
                    queries, reasonCalls, stages, response, env, engine,
                    request, indexVars >>

ApiNext ==
    \/ Startup
    \/ PostRecommend
    \/ InterpretQuery
    \/ EmbedQuery
    \/ SearchIndex
    \/ ThresholdCandidates
    \/ ExplainCandidate
    \/ Respond
    \/ RouteReturn
    \/ Shutdown

ApiSpec == ApiInit /\ [][ApiNext]_vars

\* the relevance threshold has been applied in the call in progress
Thresholded == \E i \in 1..Len(stages) : stages[i] = "threshold"

\* C12: generate_match_reason never raises: on a failure of the model call or
\* an empty output it returns the generic fallback sentence, so every call of
\* it yields a course with a reason and a failing explanation call never turns
\* the recommend request into a failure.
C12_ExplanationNeverFailsTheRequest ==
    /\ Len(courses) = Len(reasonCalls)
    /\ \A i \in 1..Len(courses) : Len(courses[i].match_reason) > 0
    /\ (~IsNone(http) /\ Len(reasonCalls) > 0) => Val(http).status # 500

\* C13: when no candidate survives (the index returns nothing, the filters
\* eliminate every candidate, or the threshold does), search_courses returns
\* an empty list, recommend returns success = true with an empty course list
\* without raising and without calling generate_match_reason, and
\* POST /api/recommend answers 400, never 500.
C13_EmptyResultIsNotAnError ==
    /\ ( /\ call = "recommend" /\ pc = "retrieved"
         /\ \A i \in 1..Len(corpus) :
               ~SatisfiesFilters(corpus[i].metadata, filters) )
       => candidates = << >>
    /\ (call = "recommend" /\ Thresholded /\ candidates = << >>)
       => /\ reasonCalls = << >>
          /\ courses = << >>
          /\ outcome \in { "none", "response" }
          /\ pc = "done" => outcome = "response"
          /\ ~IsNone(http) => Val(http).status = 400

C13_Witness ==
    /\ call = "recommend" /\ Thresholded /\ candidates = << >>
    /\ Len(search_courses(corpus, filters, top_k * 2)) > 0
    /\ ~IsNone(http)
    /\ Val(http).status = 400

\* C14: an unexpected exception in POST /api/recommend produces HTTP 500 with
\* the body {success: false, error: string}, whose message does not depend on
\* the exception: failures with different exception texts give the same body.
C14_GenericInternalError ==
    /\ (outcome = "raised" /\ ~IsNone(http)) => Val(http).status = 500
    /\ (~IsNone(http) /\ Val(http).status = 500)
       => /\ DOMAIN Val(http).body = { "success", "error" }
          /\ Val(http).body.success = FALSE
          /\ \A e \in ExceptionTexts :
                Val(http) = recommend_courses(TRUE, e, << >>)

\* a request the claimed limits exclude
OutOfRange(req) ==
    \/ Len(req.query) < 3
    \/ Len(req.query) > 500
    \/ req.top_k < 1
    \/ req.top_k > 10
    \/ req.min_relevance < 0
    \/ req.min_relevance > Scale

\* C15: a request whose query is shorter than 3 or longer than 500 characters,
\* whose top_k is outside 1..10 or whose min_relevance is outside 0..1 is
\* rejected with a validation error and the engine is never invoked.
C15_InvalidRequestsNeverReachTheEngine ==
    (~IsNone(request) /\ OutOfRange(Val(request)))
    => /\ ~IsNone(http)
       /\ Val(http).status = 422
       /\ call = "none"
       /\ outcome = "none"
       /\ stages = << >>
       /\ queries = << >>
       /\ reasonCalls = << >>

C15_Witness ==
    /\ ~IsNone(request)
    /\ Len(Val(request).query) = 501
    /\ Val(request).top_k = 10
    /\ Val(request).min_relevance = Scale
    /\ ~IsNone(http)
    /\ Val(http).status = 422

\* the name of the collection lifespan opens
ConfiguredCollection ==
    IF IsNone(env.COLLECTION_NAME) THEN S("courses_1264")
    ELSE Val(env.COLLECTION_NAME)

\* a credential is absent or the configured collection does not exist
MissingConfiguration ==
    \/ IsNone(env.OPENAI_API_KEY)
    \/ IsNone(env.GOOGLE_API_KEY)
    \/ ConfiguredCollection \notin env.store

\* C16: if OPENAI_API_KEY or GOOGLE_API_KEY is absent, or the configured
\* collection does not exist, startup fails before the query engine is
\* registered: the service never accepts a request.
C16_MissingConfigurationStopsStartup ==
    MissingConfiguration
    => /\ IsNone(engine)
       /\ IsNone(request)
       /\ IsNone(http)
       /\ env.process \in { "stopped", "failed" }

C16_Witness ==
    /\ env.process = "failed"
    /\ TruthyStr(env.OPENAI_API_KEY)
    /\ TruthyStr(env.GOOGLE_API_KEY)
    /\ ConfiguredCollection \notin env.store

\* C17: a mismatch between the size of the query embedding and the size of the
\* vectors stored in the index is a fatal error at startup; it never first
\* surfaces as the failure of an individual recommend request.
C17_DimensionMismatchStopsStartup ==
    (Len(corpus) > 0 /\ env.embedding_dimension # env.index_dimension)
    => /\ env.process # "serving"
       /\ IsNone(request)
       /\ IsNone(http)

-----------------------------------------------------------------------------
(* The indexer: index/indexer.py, run by scripts/index_courses.py *)

\* most courses handed to one index_all or index_batch call
MaxCourses == 2

\* IndexingConfig.batch_size as the script may set it
BatchSizes == { 1, 2 }

\* transform/models.py CourseMetadata
CourseMetadata(department, level, campuses, wqb, prerequisites_raw, instructors, elective_score) ==
    [ department |-> department, level |-> level, units |-> 3,
      campuses |-> campuses, wqb |-> wqb, has_wqb |-> Len(wqb) > 0,
      has_prerequisites |-> Len(prerequisites_raw) > 0,
      prerequisite_level |->
          IF Len(prerequisites_raw) > 0 THEN S("required") ELSE S("none"),
      prerequisites_raw |-> prerequisites_raw,
      delivery_methods |-> << S("In Person") >>,
      instructors |-> instructors,
      sections |-> << S("D100") >>,
      elective_score |-> elective_score, total_capacity |-> 120 ]

\* transform/models.py TransformedCourse: three courses, the first as two runs
\* of the transform stage produced it
TransformedCourses == {
    [ id |-> "cmpt-120-2026su", course_code |-> S("CMPT 120"),
      title |-> S("Introduction to Computing"),
      document |-> << "CMPT 120 - Introduction to Computing", "\n", "\n",
                      "Introduction to programming." >>,
      keywords |-> << S("programming"), S("python") >>,
      metadata |-> CourseMetadata(S("CMPT"), 100, << S("Burnaby"), S("Surrey") >>,
                                  << >>, << >>, << S("Dr. Smith") >>, 15) ],
    [ id |-> "cmpt-120-2026su", course_code |-> S("CMPT 120"),
      title |-> S("Introduction to Computing Science"),
      document |-> << "CMPT 120 - Introduction to Computing Science", "\n",
                      "\n", "Programming for beginners." >>,
      keywords |-> << S("coding") >>,
      metadata |-> CourseMetadata(S("CMPT"), 100, << S("Burnaby") >>,
                                  << S("Q") >>, << >>, << >>, 19) ],
    [ id |-> "macm-101-2026su", course_code |-> S("MACM 101"),
      title |-> S("Discrete Mathematics I"),
      document |-> << "MACM 101 - Discrete Mathematics I", "\n", "\n",
                      "Logic and proof." >>,
      keywords |-> << >>,
      metadata |-> CourseMetadata(S("MACM"), 100, << S("Burnaby") >>,
                                  << S("Q"), S("B-Sci") >>,
                                  << "BC Math 12", ",", " ", "or equivalent." >>,
                                  << S("Dr. Lee"), S("Dr. Wong") >>, 17) ],
    [ id |-> "phil-100w-2026su", course_code |-> S("PHIL 100W"),
      title |-> S("Knowledge and Reality"),
      document |-> << "PHIL 100W - Knowledge and Reality", "\n", "\n",
                      "An introduction to philosophy." >>,
      keywords |-> << S("ethics") >>,
      metadata |-> CourseMetadata(S("PHIL"), 100,
                                  << S("Burnaby"), S("Vancouver") >>,
                                  << S("W"), S("B-Hum") >>, << >>,
                                  << S("Dr. Jones") >>, 22) ]
}

\* the lists of courses a run is given
RECURSIVE CourseLists(_)
CourseLists(n) ==
    IF n = 0 THEN { << >> }
    ELSE CourseLists(n - 1) \cup
         { Append(cs, c) : cs \in { x \in CourseLists(n - 1) : Len(x) = n - 1 },
                           c \in TransformedCourses }

\* CourseIndexer._prepare_metadata
_prepare_metadata(course) ==
    LET meta == course.metadata
    IN  [ course_code |-> course.course_code,
          title |-> course.title,
          department |-> meta.department,
          level |-> meta.level,
          units |-> meta.units,
          elective_score |-> meta.elective_score,
          total_capacity |-> meta.total_capacity,
          has_wqb |-> meta.has_wqb,
          has_prerequisites |-> meta.has_prerequisites,
          campuses |-> Join(S(","), meta.campuses),
          wqb |-> Join(S(","), meta.wqb),
          delivery_methods |-> Join(S(","), meta.delivery_methods),
          prerequisite_level |-> meta.prerequisite_level,
          keywords |-> Join(S(","), course.keywords) ]

\* the entry written for a course: id, document and flat metadata
Entry(course) ==
    [ id |-> course.id, document |-> course.document,
      metadata |-> _prepare_metadata(course) ]

\* the position of the entry of an id, 0 if there is none
IndexOf(entries, id) ==
    IF \E i \in 1..Len(entries) : entries[i].id = id
    THEN CHOOSE i \in 1..Len(entries) : entries[i].id = id
    ELSE 0

\* every item added as a new entry
upsert_adds(entries, items) == entries \o items

\* Collection.upsert of items with distinct ids: the entry of a known id is
\* replaced, an item of a new id is added
RECURSIVE upsert(_, _)
upsert(entries, items) ==
    IF Len(items) = 0 THEN entries
    ELSE LET item == Head(items)
             i == IndexOf(entries, item.id)
         IN  upsert(IF i = 0 THEN Append(entries, item)
                    ELSE [ entries EXCEPT ![i] = item ],
                    Tail(items))

\* the history after the courses of one batch were upserted; upserts counts
\* up to two
Upserted(history, cs) ==
    { h \in history : \A i \in 1..Len(cs) : cs[i].id # h.id }
    \cup { [ id |-> cs[i].id, course |-> cs[i],
             upserts |-> IF \E h \in history : h.id = cs[i].id
                         THEN 2 ELSE 1 ] : i \in 1..Len(cs) }

\* CourseIndexer.index_batch on a collection holding entries:
\* [raised, entries, latest]; embeddings tells whether generate_embeddings
\* returns, and upsert raises DuplicateIDError for a repeated id
index_batch(entries, history, cs, embeddings) ==
    IF Len(cs) = 0
    THEN [ raised |-> FALSE, entries |-> entries, latest |-> history ]
    ELSE IF ~embeddings
    THEN [ raised |-> TRUE, entries |-> entries, latest |-> history ]
    ELSE IF \E i, j \in 1..Len(cs) : i # j /\ cs[i].id = cs[j].id
    THEN [ raised |-> TRUE, entries |-> entries, latest |-> history ]
    ELSE [ raised |-> FALSE,
           entries |-> upsert(entries,
                              [ i \in 1..Len(cs) |-> Entry(cs[i]) ]),
           latest |-> Upserted(history, cs) ]

\* the batch loop of CourseIndexer.index_all; embeddings is the number of
\* generate_embeddings calls that return before one raises
RECURSIVE index_all(_, _, _, _, _)
index_all(entries, history, cs, batch_size, embeddings) ==
    IF Len(cs) = 0
    THEN [ raised |-> FALSE, entries |-> entries, latest |-> history ]
    ELSE LET batch == SubSeq(cs, 1, Min(batch_size, Len(cs)))
             rest == SubSeq(cs, Len(batch) + 1, Len(cs))
             r == index_batch(entries, history, batch, embeddings > 0)
         IN  IF r.raised THEN r
             ELSE index_all(r.entries, r.latest, rest, batch_size,
                            embeddings - 1)

IndexInit ==
    /\ NoPipeline
    /\ corpus = << >>
    /\ NoRequest
    /\ response = None
    /\ NoService
    /\ NoIndexing

\* scripts/index_courses.py run_index: a run of the script constructs its
\* CourseIndexer, whose self.collection is None
NewIndexer ==
    /\ UNCHANGED << pipelineVars, tasks >>
    /\ indexer' = Some([ opened |-> FALSE ])
    /\ UNCHANGED << corpus, call, pc, query, filters, top_k, min_relevance,
                    n_results, interpretation, candidates, courses, outcome,
                    queries, reasonCalls, stages, response, serviceVars,
                    processed, collection, latest >>

\* indexer.index_all(courses, semester, recreate)
IndexAll ==
    /\ UNCHANGED << pipelineVars, tasks >>
    /\ ~IsNone(indexer)
    /\ \E cs \in CourseLists(MaxCourses), recreate \in BOOLEAN,
          batch_size \in BatchSizes, embeddings \in 0..MaxCourses :
          LET fresh == recreate \/ IsNone(collection)
              r == index_all(IF fresh THEN << >> ELSE Val(collection),
                             IF fresh THEN { } ELSE latest,
                             cs, batch_size, embeddings)
          IN  /\ collection' = Some(r.entries)
              /\ latest' = r.latest
    /\ indexer' = Some([ opened |-> TRUE ])
    /\ UNCHANGED << corpus, call, pc, query, filters, top_k, min_relevance,
                    n_results, interpretation, candidates, courses, outcome,
                    queries, reasonCalls, stages, response, serviceVars,
                    processed >>

\* indexer.index_batch(courses); with self.collection still None the upsert
\* raises AttributeError
IndexBatch ==
    /\ UNCHANGED << pipelineVars, tasks >>
    /\ ~IsNone(indexer)
    /\ \E cs \in CourseLists(MaxCourses), embeddings \in BOOLEAN :
          IF Len(cs) > 0 /\ ~Val(indexer).opened
          THEN UNCHANGED << collection, latest >>
          ELSE LET r == index_batch(IF IsNone(collection) THEN << >>
                                    ELSE Val(collection),
                                    latest, cs, embeddings)
               IN  IF ~Val(indexer).opened
                   THEN UNCHANGED << collection, latest >>
                   ELSE /\ collection' = Some(r.entries)
                        /\ latest' = r.latest
    /\ UNCHANGED << corpus, call, pc, query, filters, top_k, min_relevance,
                    n_results, interpretation, candidates, courses, outcome,
                    queries, reasonCalls, stages, response, serviceVars,
                    processed, indexer >>

IndexNext ==
    \/ NewIndexer
    \/ IndexAll
    \/ IndexBatch

IndexSpec == IndexInit /\ [][IndexNext]_vars

\* C18: after any sequence of index_batch and index_all runs the collection
\* holds exactly one entry per course id indexed since it was (re)created,
\* carrying the document and metadata of the most recent upsert of that id;
\* indexing an id again never adds a second entry.
C18_OneEntryPerIdWithLatestContent ==
    /\ IsNone(collection) => latest = { }
    /\ ~IsNone(collection) =>
         LET entries == Val(collection)
         IN  /\ { entries[i].id : i \in 1..Len(entries) }
                  = { h.id : h \in latest }
             /\ \A h \in latest :
                   /\ Cardinality({ i \in 1..Len(entries) :
                                      entries[i].id = h.id }) = 1
                   /\ Cardinality({ g \in latest : g.id = h.id }) = 1
                   /\ \A i \in 1..Len(entries) :
                         entries[i].id = h.id
                         => /\ entries[i].document = h.course.document
                            /\ entries[i].metadata
                                 = _prepare_metadata(h.course)

C18_Witness ==
    /\ ~IsNone(collection)
    /\ Len(Val(collection)) = 3
    /\ \E h \in latest :
          /\ h.upserts = 2
          /\ \E i \in 1..Len(Val(collection)) :
                /\ Val(collection)[i].id = h.id
                /\ Val(collection)[i].document = h.course.document

\* the fields of the metadata contract
MetadataContract ==
    { "course_code", "title", "department", "level", "units",
      "elective_score", "total_capacity", "has_wqb", "has_prerequisites",
      "campuses", "wqb", "delivery_methods", "prerequisite_level",
      "prerequisites_raw", "instructors", "keywords" }

\* the CourseResult recommend builds from a stored entry
ReadBack(entry) ==
    CourseResult([ id |-> entry.id, document |-> entry.document,
                   metadata |-> entry.metadata, relevance_score |-> 0 ],
                 S("Matches your search interests."))

\* C20: every metadata record the indexer writes is flat (scalars and
\* delimiter-joined strings) and contains every field of the metadata
\* contract, prerequisites_raw and instructors included, so that the
\* prerequisites and instructor recommend reads back from it are the values
\* the transform stage produced for the course.
C20_MetadataCarriesTheContract ==
    ~IsNone(collection) =>
        \A i \in 1..Len(Val(collection)) : \A h \in latest :
            h.id = Val(collection)[i].id =>
                LET m == Val(collection)[i].metadata
                    produced == h.course.metadata
                    read == ReadBack(Val(collection)[i])
                IN  /\ m.campuses = Join(S(","), produced.campuses)
                    /\ m.wqb = Join(S(","), produced.wqb)
                    /\ m.delivery_methods
                         = Join(S(","), produced.delivery_methods)
                    /\ m.keywords = Join(S(","), h.course.keywords)
                    /\ read.prerequisites = produced.prerequisites_raw
                    /\ read.instructor =
                         IF Len(produced.instructors) = 0 THEN << >>
                         ELSE Strip(produced.instructors[1])
                    /\ MetadataContract \subseteq DOMAIN m
                    /\ m.prerequisites_raw = produced.prerequisites_raw
                    /\ m.instructors = Join(S(","), produced.instructors)

-----------------------------------------------------------------------------
(* Elective scoring: processing/preprocessor.py *)

\* processing/models.py WQBCode, in declaration order
WQBCode == << S("Q"), S("W"), S("B-Sci"), S("B-Soc"), S("B-Hum") >>

\* the first n of the names a merged course may list
Names(n) == SubSeq(<< S("first"), S("second") >>, 1, n)

\* processing/models.py ProcessedCourse: the fields the score reads, for a
\* course that passed check_exclusion
ProcessedCourses ==
    { [ has_prerequisites |-> p,
        wqb |-> SubSeq(WQBCode, 1, w),
        level |-> l,
        total_capacity |-> c,
        instructors |-> Names(i),
        delivery_methods |-> Names(d),
        campuses |-> Names(m),
        elective_score |-> 0 ] :
        p \in BOOLEAN, w \in 0..Len(WQBCode), l \in { 0, 100, 200, 300 },
        c \in { 0, 49, 50, 99, 100, 199, 200, 1000 },
        i \in 0..2, d \in 0..2, m \in 0..2 }

\* preprocessor.calculate_elective_score
calculate_elective_score(c) ==
    (IF ~c.has_prerequisites THEN 5 ELSE 0)
    + 5 * Len(c.wqb)
    + (IF c.level = 100 THEN 5 ELSE IF c.level = 200 THEN 3 ELSE 0)
    + (IF c.total_capacity >= 200 THEN 3
       ELSE IF c.total_capacity >= 100 THEN 2
       ELSE IF c.total_capacity >= 50 THEN 1 ELSE 0)
    + (IF Len(c.instructors) > 0 THEN 1 ELSE 0)
    + (IF Len(c.delivery_methods) > 1 THEN 1 ELSE 0)
    + (IF Len(c.campuses) > 1 THEN 1 ELSE 0)

ScoreInit ==
    /\ NoPipeline
    /\ corpus = << >>
    /\ call = "score"
    /\ pc = "start"
    /\ query = << >>
    /\ filters = NoFilters
    /\ top_k = 0
    /\ min_relevance = 0
    /\ n_results = 0
    /\ interpretation = None
    /\ candidates = << >>
    /\ courses = << >>
    /\ outcome = "none"
    /\ queries = << >>
    /\ reasonCalls = << >>
    /\ stages = << >>
    /\ response = None
    /\ NoService
    /\ processed \in { Some(c) : c \in ProcessedCourses }
    /\ indexer = None
    /\ collection = None
    /\ latest = { }

\* course.elective_score = calculate_elective_score(course)
Score ==
    /\ UNCHANGED << pipelineVars, tasks >>
    /\ call = "score" /\ pc = "start"
    /\ processed' = Some([ Val(processed) EXCEPT
                             !.elective_score =
                                 calculate_elective_score(Val(processed)) ])
    /\ pc' = "done"
    /\ UNCHANGED << corpus, call, query, filters, top_k, min_relevance,
                    n_results, interpretation, candidates, courses, outcome,
                    queries, reasonCalls, stages, response, serviceVars,
                    indexer, collection, latest >>

ScoreNext == Score

ScoreSpec == ScoreInit /\ [][ScoreNext]_vars

\* C19: the elective score is an integer in [0, 25] for every combination of
\* prerequisite flag, number of WQB codes, level, total capacity, instructors,
\* delivery methods and campuses; consequently elective_score / 25, the
\* engine's normalized elective score, is in [0, 1].
C19_ElectiveScoreWithinRange ==
    (call = "score" /\ pc = "done")
    => /\ Val(processed).elective_score \in 0..25
       /\ Val(processed).elective_score * Scale >= 0
       /\ Val(processed).elective_score * Scale <= MAX_ELECTIVE_SCORE * Scale

-----------------------------------------------------------------------------
(* The transform stage: transform/transformer.py *)

\* largest retries argument generate_keywords is called with
MaxRetries == 3

\* generate_keywords' default retries
default_retries == 3

\* keywords[:8]
keywords_cap == 8

\* prerequisites_raw[:200]
prerequisites_cut == 200

\* str.lower of one run of characters
LowerAtom(a) ==
    CASE a = "CMPT" -> "cmpt"
      [] a = "PHIL" -> "phil"
      [] a = "100W" -> "100w"
      [] a = "Python" -> "python"
      [] a = "Ethics" -> "ethics"
      [] a = "Co-op" -> "co-op"
      [] a = "Practicum" -> "practicum"
      [] a = "Thesis" -> "thesis"
      [] a = "Directed" -> "directed"
      [] a = "Studies" -> "studies"
      [] a = "Capstone" -> "capstone"
      [] a = "Project" -> "project"
      [] a = "II" -> "ii"
      [] OTHER -> a

\* str.lower
Lower(s) == [ i \in 1..Len(s) |-> LowerAtom(s[i]) ]

\* str.replace(old, new) for one-character old and new
Replace(s, old, new) == [ i \in 1..Len(s) |-> IF s[i] = old THEN new ELSE s[i] ]

\* str(n) of an int
Str(n) == S(ToString(n))

\* a str of n characters, one atom per character
Chars(n) == [ i \in 1..n |-> "x" ]

\* the semester codes the scripts are run for: the keys of SEMESTER_TO_TERM and
\* Spring 2027, one atom per digit
Semesters ==
    { << "1", "2", "6", "1" >>, << "1", "2", "6", "4" >>,
      << "1", "2", "6", "7" >>, << "1", "2", "5", "1" >>,
      << "1", "2", "5", "4" >>, << "1", "2", "5", "7" >>,
      << "1", "2", "7", "1" >> }

\* CourseTransformer.generate_document_id
generate_document_id(course, semester) ==
    LET code_parts == Replace(Lower(course.course_code), " ", "-")
        suffix == IF semester = << "1", "2", "6", "1" >> THEN S("sp")
                  ELSE IF semester = << "1", "2", "6", "4" >> THEN S("su")
                  ELSE IF semester = << "1", "2", "6", "7" >> THEN S("fa")
                  ELSE S(semester[Len(semester)])
        year == S("2026")
    IN  code_parts \o S("-") \o year \o suffix

\* the description follows the prerequisites line without an empty line
format_document_text_no_empty_line(course, keywords) ==
    Join(S("\n"),
         << course.course_code \o << " ", "-", " " >> \o course.title,
            course.description >>
         \o (IF Len(keywords) > 0
             THEN << << >>,
                     << "Good for students interested in:", " " >>
                       \o Join(<< ",", " " >>, keywords) >>
             ELSE << >>))

\* CourseTransformer.format_document_text
format_document_text(course, keywords) ==
    LET bar == << " ", "|", " " >>
        comma == << ",", " " >>
        header == course.course_code \o << " ", "-", " " >> \o course.title
        meta_parts == << << "Department:", " " >> \o course.department,
                         << "Level:", " " >> \o Str(course.level),
                         << "Units:", " " >> \o Str(course.units) >>
        avail_parts ==
            (IF Len(course.campuses) > 0
             THEN << << "Campus:", " " >> \o Join(comma, course.campuses) >>
             ELSE << >>)
            \o (IF Len(course.delivery_methods) > 0
                THEN << << "Delivery:", " " >>
                          \o Join(comma, course.delivery_methods) >>
                ELSE << >>)
        wqb_str == IF Len(course.wqb) > 0 THEN Join(comma, course.wqb)
                   ELSE S("None")
        prereq_str ==
            IF ~course.has_prerequisites THEN S("None")
            ELSE IF Len(course.prerequisites_raw) > 0
                 THEN SubSeq(course.prerequisites_raw, 1,
                             Min(prerequisites_cut, Len(course.prerequisites_raw)))
                      \o (IF Len(course.prerequisites_raw) > prerequisites_cut
                          THEN S("...") ELSE << >>)
                 ELSE S("Required")
        lines == << header, Join(bar, meta_parts) >>
                 \o (IF Len(avail_parts) > 0 THEN << Join(bar, avail_parts) >>
                     ELSE << >>)
                 \o << << "WQB:", " " >> \o wqb_str \o bar
                         \o << "Prerequisites:", " " >> \o prereq_str,
                       << >>,
                       course.description >>
                 \o (IF Len(keywords) > 0
                     THEN << << >>,
                             << "Good for students interested in:", " " >>
                               \o Join(comma, keywords) >>
                     ELSE << >>)
    IN  Join(S("\n"), lines)

\* CourseTransformer.extract_metadata
extract_metadata(course) ==
    [ department |-> course.department, level |-> course.level,
      units |-> course.units, campuses |-> course.campuses,
      wqb |-> course.wqb, has_wqb |-> course.has_wqb,
      has_prerequisites |-> course.has_prerequisites,
      prerequisite_level |-> course.prerequisite_level,
      prerequisites_raw |-> course.prerequisites_raw,
      delivery_methods |-> course.delivery_methods,
      instructors |-> course.instructors, sections |-> course.sections,
      elective_score |-> course.elective_score,
      total_capacity |-> course.total_capacity ]

\* [k.lower() for k in ks]
RECURSIVE LowerAll(_)
LowerAll(ks) ==
    IF Len(ks) = 0 THEN << >> ELSE << Lower(Head(ks)) >> \o LowerAll(Tail(ks))

\* [k.strip().lower() for k in content.split(",") if k.strip()][:8]
parse_keywords(content) ==
    LET keywords == LowerAll(StripNonEmpty(Split(content, S(","))))
    IN  SubSeq(keywords, 1, Min(keywords_cap, Len(keywords)))

\* every wait as long as the first
wait_time_constant(attempt) == (2 ^ 0) * 5

\* (2 ** attempt) * 0.5 seconds, in tenths of a second
wait_time(attempt) == (2 ^ attempt) * 5

\* delay = 0.1 seconds, in tenths of a second
delay == 1

\* processing/models.py ProcessedCourse: courses that passed check_exclusion,
\* their texts cleaned by clean_text
TransformInputs ==
    { [ course_code |-> k.course_code, department |-> k.department,
        course_number |-> k.course_number, level |-> 100,
        title |-> k.title, description |-> k.description, units |-> 3,
        wqb |-> w, has_wqb |-> Len(w) > 0,
        prerequisites_raw |-> p.raw,
        prerequisite_level |-> IF p.has THEN S("required") ELSE S("none"),
        has_prerequisites |-> p.has,
        campuses |-> m, delivery_methods |-> dm,
        instructors |-> << S("Dr. Smith") >>, sections |-> << S("D100") >>,
        total_capacity |-> 120, elective_score |-> 15 ] :
        k \in { [ course_code |-> << "CMPT", " ", "120" >>,
                  department |-> S("CMPT"), course_number |-> S("120"),
                  title |-> << "Introduction", " ", "to", " ", "Computing" >>,
                  description |-> << "Introduction", " ", "to", " ",
                                     "programming." >> ],
                [ course_code |-> << "PHIL", " ", "100W" >>,
                  department |-> S("PHIL"), course_number |-> S("100W"),
                  title |-> << "Knowledge", " ", "and", " ", "Reality" >>,
                  description |-> << "Good", " ", "for", " ", "students",
                                     " ", "interested", " ", "in:", " ",
                                     "logic", " ", "|", " ", "WQB:", " ",
                                     "None" >> ] },
        w \in { << >>, << S("Q"), S("B-Sci") >> },
        p \in { [ has |-> FALSE, raw |-> << >> ],
                [ has |-> TRUE, raw |-> << >> ],
                [ has |-> TRUE, raw |-> Chars(prerequisites_cut) ],
                [ has |-> TRUE, raw |-> Chars(prerequisites_cut + 1) ] },
        m \in { << >>, << S("Burnaby"), S("Surrey") >> },
        dm \in { << >>, << << "In", " ", "Person" >> >> } }

\* what chat.completions.create resolves to: an exception, a response without
\* choices, or a response whose first choice has the given message.content
KeywordReplies ==
    { [ kind |-> "raised", content |-> None ],
      [ kind |-> "no_choices", content |-> None ],
      [ kind |-> "content", content |-> None ],
      [ kind |-> "content", content |-> Some(<< >>) ],
      [ kind |-> "content",
        content |-> Some(<< "programming", ",", " ", "Python", " ", ",", ",",
                            " ", "\n", ",", "data", " ", "structures" >>) ],
      [ kind |-> "content",
        content |-> Some(<< "Ethics", ",", "logic", ",", "mind", ",", "truth",
                            ",", "language", ",", "knowledge", ",", "reality",
                            ",", "reason", ",", "argument" >>) ] }

\* response.choices[0].message.content or ""
ContentOf(reply) == IF IsNone(reply.content) THEN << >> ELSE Val(reply.content)

\* the generate_keywords call of a transformer, at the head of its loop
KeywordCall(client, retries) ==
    [ client |-> client,
      stats |-> [ llm_calls |-> 0, failed_keywords |-> 0 ],
      retries |-> retries, attempt |-> 0, at |-> "loop",
      creates |-> 0, slept |-> << >>, parsed |-> None, keywords |-> None ]

TransformInit ==
    /\ corpus = << >>
    /\ call \in { "transform_course", "generate_keywords" }
    /\ pc = "start"
    /\ query = << >>
    /\ filters = NoFilters
    /\ top_k = 0
    /\ min_relevance = 0
    /\ n_results = 0
    /\ interpretation = None
    /\ candidates = << >>
    /\ courses = << >>
    /\ outcome = "none"
    /\ queries = << >>
    /\ reasonCalls = << >>
    /\ stages = << >>
    /\ response = None
    /\ NoService
    /\ indexer = None
    /\ collection = None
    /\ latest = { }
    /\ fetcher = None
    /\ preprocessor = None
    /\ tasks = << >>
    /\ \E c \in TransformInputs, s \in Semesters :
          processed = Some([ course |-> c, semester |-> s, result |-> None ])
    /\ \E client \in BOOLEAN, retries \in 0..MaxRetries :
          /\ call = "transform_course" => client /\ retries = default_retries
          /\ call = "generate_keywords" =>
                Val(processed).semester = << "1", "2", "6", "4" >>
          /\ transformer = Some(KeywordCall(client, retries))

\* the variables the transform stage leaves alone
transformFrame ==
    << corpus, call, query, filters, top_k, min_relevance, n_results,
       interpretation, candidates, courses, outcome, queries, reasonCalls,
       stages, response, serviceVars, indexer, collection, latest, fetcher,
       preprocessor, tasks >>

\* the except branch of generate_keywords
KeywordFailure(t) ==
    IF t.attempt < t.retries - 1
    THEN [ t EXCEPT !.at = "backoff",
                    !.slept = Append(@, wait_time(t.attempt)) ]
    ELSE [ t EXCEPT !.at = "returned", !.keywords = Some(<< >>),
                    !.stats.failed_keywords = @ + 1 ]

\* one iteration of the loop, from the create call to the next await
KeywordAttempt ==
    /\ ~IsNone(transformer)
    /\ LET t == Val(transformer)
       IN  /\ t.at = "loop" /\ t.attempt < t.retries
           /\ IF ~t.client
              THEN transformer' = Some(KeywordFailure(t))
              ELSE \E reply \in KeywordReplies :
                      LET called == [ t EXCEPT !.creates = @ + 1 ]
                          counted == [ called EXCEPT !.stats.llm_calls = @ + 1 ]
                      IN  transformer' = Some(
                            CASE reply.kind = "raised" -> KeywordFailure(called)
                              [] reply.kind = "no_choices" ->
                                   KeywordFailure(counted)
                              [] OTHER ->
                                   [ counted EXCEPT
                                       !.parsed =
                                           Some(parse_keywords(ContentOf(reply))),
                                       !.at = "sleep",
                                       !.slept = Append(@, delay) ])
    /\ UNCHANGED << pc, processed, transformFrame >>

\* asyncio.sleep returns: the keywords are returned, or the next attempt starts
KeywordWake ==
    /\ ~IsNone(transformer)
    /\ LET t == Val(transformer)
       IN  /\ t.at \in { "sleep", "backoff" }
           /\ transformer' =
                Some(IF t.at = "sleep"
                     THEN [ t EXCEPT !.at = "returned", !.keywords = t.parsed ]
                     ELSE [ t EXCEPT !.at = "loop", !.attempt = @ + 1 ])
    /\ UNCHANGED << pc, processed, transformFrame >>

\* range(retries) is exhausted: return []
KeywordFallThrough ==
    /\ ~IsNone(transformer)
    /\ LET t == Val(transformer)
       IN  /\ t.at = "loop" /\ t.attempt >= t.retries
           /\ transformer' =
                Some([ t EXCEPT !.at = "returned", !.keywords = Some(<< >>) ])
    /\ UNCHANGED << pc, processed, transformFrame >>

\* transform_course after generate_keywords returned
TransformCourse ==
    /\ call = "transform_course" /\ pc = "start"
    /\ ~IsNone(transformer)
    /\ Val(transformer).at = "returned"
    /\ LET course == Val(processed).course
           semester == Val(processed).semester
           keywords == Val(Val(transformer).keywords)
       IN  processed' =
             Some([ Val(processed) EXCEPT !.result =
                      Some([ id |-> generate_document_id(course, semester),
                             course_code |-> course.course_code,
                             title |-> course.title,
                             document |-> format_document_text(course, keywords),
                             keywords |-> keywords,
                             metadata |-> extract_metadata(course) ]) ])
    /\ pc' = "transformed"
    /\ UNCHANGED << transformer, transformFrame >>

TransformNext ==
    \/ KeywordAttempt
    \/ KeywordWake
    \/ KeywordFallThrough
    \/ TransformCourse

TransformSpec == TransformInit /\ [][TransformNext]_vars

\* the event loop runs every coroutine that is ready
TransformFairSpec == TransformSpec /\ WF_vars(TransformNext)

\* the course transform_course was given and the TransformedCourse it returned
TransformedInput == Val(processed).course
TransformedResult == Val(Val(processed).result)

\* C21: for every course that reaches the index (non-empty, whitespace-
\* normalized description) and every keyword list, splitting the document
\* format_document_text produced on blank-line boundaries and taking the second
\* segment, as recommend does with the stored entry, yields exactly the
\* course's description.
C21_DescriptionRoundTrip ==
    pc = "transformed" =>
        /\ ExtractDescription(TransformedResult.document)
             = TransformedInput.description
        /\ ReadBack(Entry(TransformedResult)).description
             = TransformedInput.description

\* a document with an availability line, truncated prerequisites and a
\* keywords section is read back
C21_Witness ==
    /\ pc = "transformed"
    /\ Len(TransformedResult.keywords) > 1
    /\ Len(TransformedInput.campuses) > 0
    /\ Len(TransformedInput.prerequisites_raw) > prerequisites_cut
    /\ Len(TransformedInput.description) > 0
    /\ Len(Split(TransformedResult.document, << "\n", "\n" >>)) = 3
    /\ ReadBack(Entry(TransformedResult)).description
         = TransformedInput.description

\* C24: two different (course_code, semester) pairs never receive the same
\* document id: the id transform_course gave a course in a semester is the id
\* of no other course code and of no other semester.
C24_DocumentIdsAreUnique ==
    pc = "transformed" =>
        \A code \in { c.course_code : c \in TransformInputs }, s \in Semesters :
            generate_document_id([ course_code |-> code ], s)
              = TransformedResult.id
            => code = TransformedInput.course_code /\ s = Val(processed).semester

\* the waits generate_keywords has made when attempts 0..n-1 failed
RECURSIVE Backoffs(_)
Backoffs(n) ==
    IF n = 0 THEN << >> ELSE Append(Backoffs(n - 1), (2 ^ (n - 1)) * 5)

\* the state of a generate_keywords call agrees with its contract
KeywordContract ==
    LET t == Val(transformer)
    IN  /\ t.creates <= t.retries
        /\ t.stats.llm_calls <= t.creates
        /\ t.attempt <= Max(t.retries - 1, 0)
        /\ t.stats.failed_keywords <= 1
        /\ t.at \in { "loop", "sleep", "backoff", "returned" }
        /\ t.at = "loop" => t.slept = Backoffs(t.attempt)
        /\ t.at = "backoff" => t.slept = Backoffs(t.attempt + 1)
        /\ t.at = "sleep" => t.slept = Append(Backoffs(t.attempt), 1)
        /\ t.at = "returned" =>
              /\ ~IsNone(t.keywords)
              /\ Len(Val(t.keywords)) <= 8
              /\ IF IsNone(t.parsed)
                 THEN /\ Val(t.keywords) = << >>
                      /\ t.stats.failed_keywords = IF t.retries > 0 THEN 1 ELSE 0
                      /\ t.slept = Backoffs(Max(t.retries - 1, 0))
                 ELSE /\ Val(t.keywords) = Val(t.parsed)
                      /\ t.stats.failed_keywords = 0
                      /\ t.slept = Append(Backoffs(t.attempt), 1)
              /\ \A i \in 1..Len(Val(t.keywords)) :
                    /\ Len(Val(t.keywords)[i]) > 0
                    /\ Strip(Val(t.keywords)[i]) = Val(t.keywords)[i]
                    /\ Lower(Val(t.keywords)[i]) = Val(t.keywords)[i]

\* C29: generate_keywords never raises and always terminates: it makes at most
\* `retries` model calls, waits (2^attempt) * 0.5 seconds between a failed
\* attempt and the next, returns the parsed keywords (at most 8) on the first
\* success, and after the last failed attempt returns [] and increments
\* stats.failed_keywords exactly once.
C29_KeywordsAlwaysReturn ==
    /\ [](~IsNone(transformer) /\ KeywordContract)
    /\ <>(Val(transformer).at = "returned")

\* the call returned [] after three failed attempts and two waits
C29_Witness ==
    /\ Val(transformer).at = "returned"
    /\ Val(transformer).retries = 3
    /\ Val(transformer).creates = 3
    /\ Val(transformer).slept = << 5, 10 >>
    /\ Val(transformer).stats.failed_keywords = 1
    /\ Val(transformer).keywords = Some(<< >>)

-----------------------------------------------------------------------------
(* QueryEngine._post_filter_courses on its own: tests/test_filters.py *)

\* longest list of courses handed to _post_filter_courses
MaxFiltered == 3

\* the course dicts search_courses builds, one per catalog entry
CourseDicts ==
    { ToCourses(ByDistance({ i }, << 3000, 3500, 4000, 4500, 5000, 5500 >>))[1] :
        i \in 1..Len(Catalog) }

\* the lists of at most n course dicts, repetitions included
RECURSIVE CourseDictLists(_)
CourseDictLists(n) ==
    IF n = 0 THEN { << >> }
    ELSE CourseDictLists(n - 1) \cup
         { Append(cs, c) : cs \in { x \in CourseDictLists(n - 1) : Len(x) = n - 1 },
                           c \in CourseDicts }

\* QueryFilters with list filters only
ListFilters ==
    { f \in Filters : IsNone(f.max_level) /\ IsNone(f.no_prerequisites) }

\* engine._post_filter_courses(courses, filters) is called: `courses` holds the
\* argument, `candidates` will hold the returned list
FilterInit ==
    /\ NoPipeline
    /\ corpus = << >>
    /\ call = "_post_filter_courses"
    /\ pc = "start"
    /\ query = << >>
    /\ filters \in ListFilters
    /\ top_k = 0
    /\ min_relevance = 0
    /\ n_results = 0
    /\ interpretation = None
    /\ candidates = << >>
    /\ courses \in CourseDictLists(MaxFiltered)
    /\ outcome = "none"
    /\ queries = << >>
    /\ reasonCalls = << >>
    /\ stages = << >>
    /\ response = None
    /\ NoService
    /\ NoIndexing

PostFilterCourses ==
    /\ call = "_post_filter_courses" /\ pc = "start"
    /\ candidates' = _post_filter_courses(courses, filters)
    /\ pc' = "done"
    /\ outcome' = "result"
    /\ UNCHANGED << corpus, call, query, filters, top_k, min_relevance,
                    n_results, interpretation, courses, queries, reasonCalls,
                    stages, response, serviceVars, indexVars, pipelineVars,
                    tasks >>

FilterNext == PostFilterCourses

FilterSpec == FilterInit /\ [][FilterNext]_vars

\* a course's metadata passes every active list filter
SatisfiesListFilters(meta, f) ==
    /\ (TruthyList(f.campus)
          => ValuesOf(meta, "campuses") \cap SeqToSet(Val(f.campus)) # {})
    /\ (TruthyList(f.wqb)
          => ValuesOf(meta, "wqb") \cap SeqToSet(Val(f.wqb)) # {})
    /\ (TruthyList(f.exclude_departments)
          => meta.department \notin SeqToSet(Val(f.exclude_departments)))

\* C25: _post_filter_courses returns exactly the subsequence of its input
\* courses that pass every active list filter (campus and WQB by intersection
\* with the split metadata values, department by exclusion); kept courses are
\* unchanged and in input order, and with no list filter active the output
\* equals the input.
C25_PostFilterIsTheSubsequence ==
    (call = "_post_filter_courses" /\ pc = "done") =>
        LET Passes(c) == SatisfiesListFilters(c.metadata, filters)
        IN  /\ candidates = SelectSeq(courses, Passes)
            /\ ~ListFilterActive => candidates = courses

\* three courses under a campus filter and a department exclusion: the second
\* is dropped, the first and the third are kept in their order
C25_Witness ==
    /\ call = "_post_filter_courses" /\ pc = "done"
    /\ TruthyList(filters.campus)
    /\ TruthyList(filters.exclude_departments)
    /\ Len(courses) = 3
    /\ courses[1] # courses[3]
    /\ candidates = << courses[1], courses[3] >>

\* the entries the index returned for the one query of the call
IndexReturned ==
    CollectionQuery(corpus, queries[1].where, queries[1].n_results)

\* C26: with no filter active the set of candidates search_courses(n) returns
\* is exactly the set of entries the index returns for limit n (the n nearest),
\* so the elective score only permutes that set; with any filters every
\* returned candidate is one of the entries the single index query returned.
C26_CandidatesComeFromTheIndexQuery ==
    Returned =>
        /\ \A i \in 1..Len(candidates) :
              \E j \in 1..Len(IndexReturned) :
                  /\ candidates[i].id = IndexReturned[j].id
                  /\ candidates[i].document = IndexReturned[j].document
                  /\ candidates[i].metadata = IndexReturned[j].metadata
        /\ (~ListFilterActive /\ ~ScalarFilterActive) =>
              /\ Len(candidates) = Min(n_results, Len(corpus))
              /\ ReturnedIds =
                    { corpus[j].id : j \in 1..Min(n_results, Len(corpus)) }

\* no filter active, fewer entries asked for than the collection holds, and the
\* nearest entry is not the first candidate
C26_Witness ==
    /\ Returned
    /\ ~ListFilterActive /\ ~ScalarFilterActive
    /\ n_results < Len(corpus)
    /\ Len(candidates) >= 2
    /\ candidates[1].id # corpus[1].id
    /\ ReturnedIds = { corpus[j].id : j \in 1..n_results }

-----------------------------------------------------------------------------
(* The engine's lifecycle: api/dependencies.py under the tests' client *)

\* most set_query_engine / clear_query_engine calls followed
MaxLifecycleCalls == 3

\* TestClient(app) of the client fixture: the app answers requests without its
\* lifespan having run; `calls` is the history of set / clear calls
LifecycleInit ==
    /\ NoPipeline
    /\ corpus \in ApiCorpora
    /\ NoRequest
    /\ response = None
    /\ env = [ OPENAI_API_KEY |-> None, GOOGLE_API_KEY |-> None,
               COLLECTION_NAME |-> None, store |-> { },
               index_dimension |-> 1536, embedding_dimension |-> 1536,
               process |-> "testing", calls |-> << >> ]
    /\ engine = None
    /\ request = None
    /\ http = None
    /\ NoIndexing

\* set_query_engine(mock_query_engine)
SetQueryEngine ==
    /\ env.process = "testing"
    /\ Len(env.calls) < MaxLifecycleCalls
    /\ engine' = set_query_engine(engine, [ collection_name |-> S("courses_test") ])
    /\ env' = [ env EXCEPT !.calls = Append(@, "set") ]
    /\ UNCHANGED << corpus, call, pc, query, filters, top_k, min_relevance,
                    n_results, interpretation, candidates, courses, outcome,
                    queries, reasonCalls, stages, response, request, http,
                    indexVars, pipelineVars, tasks >>

\* clear_query_engine()
ClearQueryEngine ==
    /\ env.process = "testing"
    /\ Len(env.calls) < MaxLifecycleCalls
    /\ engine' = clear_query_engine(engine)
    /\ env' = [ env EXCEPT !.calls = Append(@, "clear") ]
    /\ UNCHANGED << corpus, call, pc, query, filters, top_k, min_relevance,
                    n_results, interpretation, candidates, courses, outcome,
                    queries, reasonCalls, stages, response, request, http,
                    indexVars, pipelineVars, tasks >>

LifecycleNext ==
    \/ SetQueryEngine
    \/ ClearQueryEngine
    \/ PostRecommend
    \/ InterpretQuery
    \/ EmbedQuery
    \/ SearchIndex
    \/ ThresholdCandidates
    \/ ExplainCandidate
    \/ Respond
    \/ RouteReturn

LifecycleSpec == LifecycleInit /\ [][LifecycleNext]_vars

\* set_query_engine has been called since the last clear_query_engine
EngineSet == Len(env.calls) > 0 /\ env.calls[Len(env.calls)] = "set"

\* C27: get_query_engine returns an engine exactly when set_query_engine has
\* been called since the last clear_query_engine; otherwise it raises
\* RuntimeError, and POST /api/recommend answers a valid request with status
\* 500 instead of crashing: a valid request is either running on the engine
\* it got or has been answered.
C27_EngineLifecycle ==
    /\ ~get_query_engine(engine).raised <=> EngineSet
    /\ env.process = "testing"
    /\ (~IsNone(request) /\ RecommendRequest(Val(request))) =>
          \/ call = "recommend"
          \/ /\ ~IsNone(http)
             /\ Val(http).status = 500
             /\ Val(http).body
                  = [ detail |-> << "Internal server error: ",
                                    "Query engine not initialized" >> ]

\* a valid request arrived after set and clear and was answered with 500
C27_Witness ==
    /\ env.calls = << "set", "clear" >>
    /\ ~IsNone(request)
    /\ RecommendRequest(Val(request))
    /\ call = "none"
    /\ ~IsNone(http)
    /\ Val(http).status = 500

-----------------------------------------------------------------------------
(* The preprocess stage: CoursePreprocessor.process *)

\* most sections in the raw file
MaxSections == 3

\* one section of the raw file: the fields process reads; designation,
\* prerequisites and enrollment are empty in every section
RawSection(course_code, section, title, description, campus) ==
    [ course_code |-> course_code, section |-> section, title |-> title,
      description |-> description, campus |-> campus,
      instructor |-> S("Dr. Smith"), delivery_method |-> S("In Person"),
      designation |-> << >>, prerequisites |-> << >>, enrollment |-> << >> ]

RawSections ==
    { RawSection(<< "CMPT", " ", "120" >>, S("D100"),
                 << "Introduction", " ", "to", " ", "Computing" >>,
                 << "<p>", "Introduction", " ", "\n", "to", " ",
                    "programming.", "</p>" >>, S("Burnaby")),
      RawSection(<< "CMPT", " ", "120" >>, S("D200"),
                 << "Introduction", " ", "to", " ", "Computing" >>,
                 << >>, S("Surrey")),
      RawSection(<< "PHIL", " ", "100W" >>, S("D100"),
                 << "Knowledge", " ", "and", " ", "Reality" >>,
                 << " ", "<br>", "\n" >>, S("Burnaby")),
      RawSection(<< "CMPT", " ", "415" >>, S("D100"),
                 << "Operating", " ", "Systems" >>,
                 S("Kernels."), S("Burnaby")),
      RawSection(<< "CMPT", " ", "880" >>, S("G100"),
                 << "Thesis" >>, S("Research."), S("Burnaby")),
      RawSection(<< "CMPT", " ", "225" >>, S("D100"),
                 << "Co-op", " ", "Practicum", " ", "II" >>,
                 S("Work term."), S("Surrey")),
      RawSection(<< "EDUC", " ", "201" >>, S("D100"),
                 << "Thesis", " ", "Project" >>,
                 S("Writing a thesis."), S("Burnaby")),
      RawSection(<< "BUS", " ", "202" >>, S("D100"),
                 << "Directed", " ", "Studies" >>,
                 S("Independent work."), S("Vancouver")),
      RawSection(<< "ENSC", " ", "305" >>, S("D100"),
                 << "Capstone", " ", "Project", " ", "II" >>,
                 S("Design project."), S("Burnaby")),
      RawSection(<< >>, S("D100"), S("Untitled"), S("No code."), << >>) }

\* the raw files: lists of at most n sections
RECURSIVE RawFiles(_)
RawFiles(n) ==
    IF n = 0 THEN { << >> }
    ELSE RawFiles(n - 1) \cup
         { Append(f, x) : f \in { y \in RawFiles(n - 1) : Len(y) = n - 1 },
                          x \in RawSections }

\* str.split(): the runs between whitespace
Words(s) == StripNonEmpty(Split(Replace(s, "\n", " "), S(" ")))

\* HTML tags, which clean_text removes
Tags == { "<p>", "</p>", "<br>" }

IsText(a) == a \notin Tags

\* preprocessor.clean_text: tags removed, whitespace normalized
clean_text(text) == Join(S(" "), Words(SelectSeq(text, IsText)))

\* preprocessor.extract_level of the course numbers in RawSections
extract_level(course_number) ==
    CASE course_number = S("120") -> 100
      [] course_number = S("100W") -> 100
      [] course_number = S("201") -> 200
      [] course_number = S("202") -> 200
      [] course_number = S("225") -> 200
      [] course_number = S("305") -> 300
      [] course_number = S("415") -> 400
      [] course_number = S("880") -> 800
      [] OTHER -> 0

\* EXCLUSION_PATTERNS, in order: the words each pattern finds in a lowercased
\* title; the last pattern matches at the end of the title only
EXCLUSION_PATTERNS ==
    << [ words |-> S("co-op"), reason |-> "coop" ],
       [ words |-> S("coop"), reason |-> "coop" ],
       [ words |-> S("practicum"), reason |-> "practicum" ],
       [ words |-> S("thesis"), reason |-> "thesis" ],
       [ words |-> << "directed", " ", "study" >>,
         reason |-> "directed_studies" ],
       [ words |-> << "directed", " ", "studies" >>,
         reason |-> "directed_studies" ],
       [ words |-> << "directed", " ", "reading" >>,
         reason |-> "directed_studies" ],
       [ words |-> S("capstone"), reason |-> "capstone" ],
       [ words |-> << "special", " ", "topics" >>, reason |-> "special_topics" ],
       [ words |-> << "honours", " ", "essay" >>, reason |-> "honours" ],
       [ words |-> << "honours", " ", "project" >>, reason |-> "honours" ],
       [ words |-> << "honours", " ", "thesis" >>, reason |-> "honours" ] >>

\* (graduate |grad )?project\s*(i|ii|iii|iv|v|1|2|3|4|5)?$
EndsWithProject(title) ==
    LET n == Len(title)
    IN  \/ (n >= 1 /\ title[n] = "project")
        \/ (n >= 3 /\ title[n - 2] = "project" /\ title[n - 1] = " "
              /\ title[n] \in { "i", "ii", "iii", "iv", "v",
                                "1", "2", "3", "4", "5" })

\* the reason of the first pattern found in the title, None if none is
TitleReason(title) ==
    LET lowered == Lower(title)
        hits == { i \in 1..Len(EXCLUSION_PATTERNS) :
                    Contains(lowered, EXCLUSION_PATTERNS[i].words) }
    IN  IF hits # { }
        THEN Some(EXCLUSION_PATTERNS[CHOOSE i \in hits :
                                        \A j \in hits : i <= j].reason)
        ELSE IF EndsWithProject(lowered) THEN Some("project") ELSE None

\* upper-division courses let through
check_exclusion_keeps_upper_division(course) ==
    IF course.level >= 600 THEN Some("graduate")
    ELSE IF Len(Strip(course.description)) = 0 THEN Some("no_description")
    ELSE TitleReason(course.title)

\* preprocessor.check_exclusion: Optional[ExclusionReason]
check_exclusion(course) ==
    IF course.level >= 600 THEN Some("graduate")
    ELSE IF course.level >= 400 THEN Some("upper_division")
    ELSE IF Len(Strip(course.description)) = 0 THEN Some("no_description")
    ELSE TitleReason(course.title)

\* the course codes of the sections in order of first appearance, "" left out
RECURSIVE CodesOf(_)
CodesOf(raw) ==
    IF Len(raw) = 0 THEN << >>
    ELSE LET before == CodesOf(SubSeq(raw, 1, Len(raw) - 1))
             code == raw[Len(raw)].course_code
         IN  IF Len(code) = 0 \/ code \in SeqToSet(before) THEN before
             ELSE Append(before, code)

\* the values of a field the sections carry, "" left out, without repetition
RECURSIVE Distinct(_, _)
Distinct(sections, field) ==
    IF Len(sections) = 0 THEN << >>
    ELSE LET before == Distinct(SubSeq(sections, 1, Len(sections) - 1), field)
             v == sections[Len(sections)][field]
         IN  IF Len(v) = 0 \/ v \in SeqToSet(before) THEN before
             ELSE Append(before, v)

Reverse(s) == [ i \in 1..Len(s) |-> s[Len(s) + 1 - i] ]

\* list(set(...)): the distinct values in the order the process's string hashing
\* gives them
ListOfSet(values, reversed) == IF reversed THEN Reverse(values) ELSE values

\* CoursePreprocessor._merge_sections
_merge_sections(code, sections, reversed) ==
    LET longest == CHOOSE i \in 1..Len(sections) :
                      /\ \A j \in 1..Len(sections) :
                            Len(sections[j].description)
                                <= Len(sections[i].description)
                      /\ \A j \in 1..(i - 1) :
                            Len(sections[j].description)
                                < Len(sections[i].description)
        best == sections[longest]
    IN  [ course_code |-> code, title |-> best.title,
          description |-> best.description,
          designation |-> best.designation,
          prerequisites |-> best.prerequisites,
          campuses |-> ListOfSet(Distinct(sections, "campus"), reversed),
          delivery_methods |->
              ListOfSet(Distinct(sections, "delivery_method"), reversed),
          instructors |-> ListOfSet(Distinct(sections, "instructor"), reversed),
          sections |-> [ i \in 1..Len(sections) |-> sections[i].section ],
          total_capacity |-> 0 ]

\* CoursePreprocessor._process_course
_process_course(course) ==
    LET parts == Words(course.course_code)
        num == IF Len(parts) > 1 THEN parts[2] ELSE << >>
    IN  [ course_code |-> course.course_code,
          department |-> IF Len(parts) > 0 THEN parts[1] ELSE << >>,
          course_number |-> num,
          level |-> extract_level(num),
          title |-> clean_text(course.title),
          description |-> clean_text(course.description),
          units |-> 0, wqb |-> << >>, has_wqb |-> FALSE,
          prerequisites_raw |-> course.prerequisites,
          prerequisite_level |-> S("none"), has_prerequisites |-> FALSE,
          campuses |-> course.campuses,
          delivery_methods |-> course.delivery_methods,
          instructors |-> course.instructors, sections |-> course.sections,
          total_capacity |-> course.total_capacity, elective_score |-> 0,
          is_excluded |-> FALSE, exclusion_reason |-> None ]

\* CoursePreprocessor._deduplicate followed by _process_course of each course
Deduplicated(raw, reversed) ==
    LET codes == CodesOf(raw)
    IN  [ k \in 1..Len(codes) |->
            LET InGroup(x) == x.course_code = codes[k]
            IN  _process_course(
                    _merge_sections(codes[k], SelectSeq(raw, InGroup), reversed)) ]

\* ProcessingStats()
ProcessingStats ==
    [ total_sections |-> 0, unique_courses |-> 0,
      excluded_graduate |-> 0, excluded_upper_division |-> 0,
      excluded_no_description |-> 0, excluded_coop |-> 0,
      excluded_practicum |-> 0, excluded_thesis |-> 0,
      excluded_directed_studies |-> 0, excluded_other |-> 0,
      total_excluded |-> 0, elective_candidates |-> 0,
      with_wqb |-> 0, no_prerequisites |-> 0 ]

\* CoursePreprocessor._count_exclusion
_count_exclusion(stats, reason) ==
    IF reason = "graduate" THEN [ stats EXCEPT !.excluded_graduate = @ + 1 ]
    ELSE IF reason = "upper_division"
         THEN [ stats EXCEPT !.excluded_upper_division = @ + 1 ]
    ELSE IF reason = "no_description"
         THEN [ stats EXCEPT !.excluded_no_description = @ + 1 ]
    ELSE IF reason = "coop" THEN [ stats EXCEPT !.excluded_coop = @ + 1 ]
    ELSE IF reason = "practicum"
         THEN [ stats EXCEPT !.excluded_practicum = @ + 1 ]
    ELSE IF reason = "thesis" THEN [ stats EXCEPT !.excluded_thesis = @ + 1 ]
    ELSE IF reason = "directed_studies"
         THEN [ stats EXCEPT !.excluded_directed_studies = @ + 1 ]
    ELSE [ stats EXCEPT !.excluded_other = @ + 1 ]

\* list.sort(key=elective_score, reverse=True): stable, descending
RECURSIVE SortByElectiveScore(_)
SortByElectiveScore(cs) ==
    IF Len(cs) = 0 THEN << >>
    ELSE LET sorted == SortByElectiveScore(SubSeq(cs, 1, Len(cs) - 1))
             c == cs[Len(cs)]
             ahead == { i \in 1..Len(sorted) :
                          sorted[i].elective_score >= c.elective_score }
         IN  SubSeq(sorted, 1, Cardinality(ahead)) \o << c >>
             \o SubSeq(sorted, Cardinality(ahead) + 1, Len(sorted))

\* CoursePreprocessor(input_path) of the script, its raw file not yet read
PreprocessInit ==
    /\ corpus = << >>
    /\ call = "process"
    /\ pc = "start"
    /\ query = << >>
    /\ filters = NoFilters
    /\ top_k = 0
    /\ min_relevance = 0
    /\ n_results = 0
    /\ interpretation = None
    /\ candidates = << >>
    /\ courses = << >>
    /\ outcome = "none"
    /\ queries = << >>
    /\ reasonCalls = << >>
    /\ stages = << >>
    /\ response = None
    /\ NoService
    /\ NoIndexing
    /\ fetcher = None
    /\ transformer = None
    /\ tasks = << >>
    /\ \E raw \in RawFiles(MaxSections), reversed \in BOOLEAN :
          preprocessor = Some([ raw |-> raw, reversed |-> reversed,
                                stats |-> ProcessingStats,
                                processed |-> << >>, electives |-> << >>,
                                excluded |-> << >>, output |-> None ])

\* the variables the preprocess stage leaves alone
preprocessFrame ==
    << corpus, call, query, filters, top_k, min_relevance, n_results,
       interpretation, candidates, courses, outcome, queries, reasonCalls,
       stages, response, serviceVars, indexVars, fetcher, transformer, tasks >>

\* Steps 1 to 3 of process: load, deduplicate, process each course
Deduplicate ==
    /\ call = "process" /\ pc = "start"
    /\ LET p == Val(preprocessor)
           processed_courses == Deduplicated(p.raw, p.reversed)
       IN  preprocessor' =
             Some([ p EXCEPT !.stats.total_sections = Len(p.raw),
                             !.stats.unique_courses = Len(processed_courses),
                             !.processed = processed_courses ])
    /\ pc' = "filtering"
    /\ UNCHANGED preprocessFrame

\* one iteration of the loop of Step 4
ApplyExclusion ==
    /\ call = "process" /\ pc = "filtering"
    /\ LET p == Val(preprocessor)
           i == Len(p.electives) + Len(p.excluded) + 1
       IN  /\ i <= Len(p.processed)
           /\ LET course == p.processed[i]
                  reason == check_exclusion(course)
              IN  preprocessor' =
                    IF ~IsNone(reason)
                    THEN Some([ p EXCEPT
                                  !.excluded =
                                      Append(@, [ course EXCEPT
                                                    !.is_excluded = TRUE,
                                                    !.exclusion_reason = reason ]),
                                  !.stats = _count_exclusion(@, Val(reason)) ])
                    ELSE Some([ p EXCEPT
                                  !.electives =
                                      Append(@, [ course EXCEPT
                                                    !.elective_score =
                                                        calculate_elective_score(course) ]) ])
    /\ UNCHANGED << pc, preprocessFrame >>

\* the rest of process: totals, _calculate_stats, sort, ProcessingOutput
BuildOutput ==
    /\ call = "process" /\ pc = "filtering"
    /\ LET p == Val(preprocessor)
       IN  /\ Len(p.electives) + Len(p.excluded) = Len(p.processed)
           /\ LET stats == [ p.stats EXCEPT
                               !.total_excluded = Len(p.excluded),
                               !.elective_candidates = Len(p.electives),
                               !.no_prerequisites = @ + Len(p.electives) ]
                  electives == SortByElectiveScore(p.electives)
              IN  preprocessor' =
                    Some([ p EXCEPT
                             !.stats = stats,
                             !.electives = electives,
                             !.output = Some([ stats |-> stats,
                                               courses |-> electives,
                                               excluded |-> p.excluded ]) ])
    /\ pc' = "done"
    /\ UNCHANGED preprocessFrame

PreprocessNext ==
    \/ Deduplicate
    \/ ApplyExclusion
    \/ BuildOutput

PreprocessSpec == PreprocessInit /\ [][PreprocessNext]_vars

\* the output process returned
ProcessingOutput == Val(Val(preprocessor).output)

\* C28: after process every deduplicated course is in exactly one of the
\* output's courses (electives) and excluded lists, total_excluded +
\* elective_candidates = unique_courses, the per-reason counters (graduate,
\* upper_division, no_description, coop, practicum, thesis, directed_studies,
\* other) sum to total_excluded, and no elective has level >= 400 or an empty
\* description.
C28_ElectivesAndExcludedPartition ==
    pc = "done" =>
        LET out == ProcessingOutput
            stats == out.stats
            codes == CodesOf(Val(preprocessor).raw)
            In(list, code) ==
                Cardinality({ i \in 1..Len(list) : list[i].course_code = code })
        IN  /\ \A k \in 1..Len(codes) :
                  In(out.courses, codes[k]) + In(out.excluded, codes[k]) = 1
            /\ Len(out.courses) + Len(out.excluded) = Len(codes)
            /\ stats.unique_courses = Len(codes)
            /\ stats.total_excluded = Len(out.excluded)
            /\ stats.elective_candidates = Len(out.courses)
            /\ stats.total_excluded + stats.elective_candidates
                 = stats.unique_courses
            /\ stats.excluded_graduate + stats.excluded_upper_division
                 + stats.excluded_no_description + stats.excluded_coop
                 + stats.excluded_practicum + stats.excluded_thesis
                 + stats.excluded_directed_studies + stats.excluded_other
                 = stats.total_excluded
            /\ \A i \in 1..Len(out.courses) :
                  /\ out.courses[i].level < 400
                  /\ Len(out.courses[i].description) > 0
                  /\ ~out.courses[i].is_excluded
            /\ \A i \in 1..Len(out.excluded) : out.excluded[i].is_excluded

\* three sections of three courses: one elective, one course excluded for its
\* missing description and one for its level
C28_Witness ==
    /\ pc = "done"
    /\ Len(Val(preprocessor).raw) = 3
    /\ Len(ProcessingOutput.courses) = 1
    /\ Len(ProcessingOutput.excluded) = 2
    /\ ProcessingOutput.stats.excluded_no_description = 1
    /\ ProcessingOutput.stats.excluded_upper_division = 1

-----------------------------------------------------------------------------
(* The fetch stage: CourseFetcher._enrich_courses *)

\* most CourSys entries handed to _enrich_courses
MaxEntries == 11

\* data/fetcher.py
MAX_CONCURRENT_OUTLINE_REQUESTS == 10

\* the CoursysEntry of the i-th section listed
CoursysEntry(i) ==
    [ course_code |-> << "CMPT", " ", ToString(100 + i) >>,
      section |-> S("D100"), department |-> S("CMPT"),
      title |-> S("Course"), campus |-> S("Burnaby"),
      enrollment |-> S("50/200"), instructor |-> S("Dr. Smith") ]

\* what fetch_course_outline returns: None (404 or any error), or the outline
Outlines ==
    { None,
      Some([ description |-> S("Introduction to programming."),
             prerequisites |-> << >>, designation |-> S("Quantitative"),
             delivery_method |-> S("In Person"), units |-> S("3"),
             instructor_name |-> << >> ]) }

\* int(units) if units.isdigit() else 0
Units(units) == IF units = S("3") THEN 3 ELSE 0

\* a missing outline not counted
_merge_data_uncounted(f, entry, outline) ==
    IF ~IsNone(outline)
    THEN [ enriched_count |-> f.enriched_count + 1,
           error_count |-> f.error_count,
           course |-> [ course_code |-> entry.course_code,
                        section |-> entry.section,
                        has_outline |-> TRUE ] ]
    ELSE [ enriched_count |-> f.enriched_count,
           error_count |-> f.error_count,
           course |-> [ course_code |-> entry.course_code,
                        section |-> entry.section,
                        has_outline |-> FALSE ] ]

\* CourseFetcher._merge_data: the counters after the call and the RawCourse
_merge_data(f, entry, outline) ==
    IF ~IsNone(outline)
    THEN [ enriched_count |-> f.enriched_count + 1,
           error_count |-> f.error_count,
           course |-> [ course_code |-> entry.course_code,
                        section |-> entry.section,
                        department |-> entry.department,
                        title |-> entry.title,
                        units |-> Units(Val(outline).units),
                        campus |-> entry.campus,
                        enrollment |-> entry.enrollment,
                        description |-> Val(outline).description,
                        prerequisites |-> Val(outline).prerequisites,
                        designation |-> Val(outline).designation,
                        delivery_method |-> Val(outline).delivery_method,
                        instructor |->
                            IF Len(Val(outline).instructor_name) > 0
                            THEN Val(outline).instructor_name
                            ELSE entry.instructor,
                        has_outline |-> TRUE ] ]
    ELSE [ enriched_count |-> f.enriched_count,
           error_count |-> f.error_count + 1,
           course |-> [ course_code |-> entry.course_code,
                        section |-> entry.section,
                        department |-> entry.department,
                        title |-> entry.title, units |-> 0,
                        campus |-> entry.campus,
                        enrollment |-> entry.enrollment,
                        description |-> << >>, prerequisites |-> << >>,
                        designation |-> << >>, delivery_method |-> << >>,
                        instructor |-> entry.instructor,
                        has_outline |-> FALSE ] ]

\* CourseFetcher(...) calling _enrich_courses(entries): the loop over the
\* batches is about to start
FetchInit ==
    /\ corpus = << >>
    /\ call = "_enrich_courses"
    /\ pc = "loop"
    /\ query = << >>
    /\ filters = NoFilters
    /\ top_k = 0
    /\ min_relevance = 0
    /\ n_results = 0
    /\ interpretation = None
    /\ candidates = << >>
    /\ courses = << >>
    /\ outcome = "none"
    /\ queries = << >>
    /\ reasonCalls = << >>
    /\ stages = << >>
    /\ response = None
    /\ NoService
    /\ NoIndexing
    /\ preprocessor = None
    /\ transformer = None
    /\ tasks = << >>
    /\ \E n \in 0..MaxEntries :
          fetcher = Some([ entries |-> [ i \in 1..n |-> CoursysEntry(i) ],
                           enriched_count |-> 0, error_count |-> 0,
                           courses |-> << >>, i |-> 0,
                           semaphore |-> MAX_CONCURRENT_OUTLINE_REQUESTS,
                           batch |-> << >>, returned |-> None ])

\* the variables the fetch stage leaves alone
fetchFrame ==
    << corpus, call, query, filters, top_k, min_relevance, n_results,
       interpretation, candidates, courses, outcome, queries, reasonCalls,
       stages, response, serviceVars, indexVars, preprocessor, transformer,
       tasks >>

\* the fetch_one tasks of a batch in flight
InFlight(f) == { j \in 1..Len(f.batch) : f.batch[j].at = "fetching" }

\* the next batch is gathered: each fetch_one task enters the semaphore if it
\* has a free slot, and then its request is sent
StartBatch ==
    /\ call = "_enrich_courses" /\ pc = "loop"
    /\ LET f == Val(fetcher)
           batch_size == MAX_CONCURRENT_OUTLINE_REQUESTS
           size == Min(batch_size, Len(f.entries) - f.i)
       IN  /\ f.i < Len(f.entries)
           /\ fetcher' =
                Some([ f EXCEPT
                         !.batch =
                             [ j \in 1..size |->
                                 [ entry |-> f.i + j,
                                   at |-> IF j <= f.semaphore THEN "fetching"
                                          ELSE "waiting",
                                   result |-> None ] ],
                         !.semaphore = Max(0, f.semaphore - size) ])
    /\ pc' = "gathering"
    /\ UNCHANGED fetchFrame

\* fetch_course_outline returns to one fetch_one task: _merge_data runs and the
\* semaphore is released, to the first task waiting if there is one
OutlineReturns ==
    /\ call = "_enrich_courses" /\ pc = "gathering"
    /\ LET f == Val(fetcher)
       IN  \E j \in InFlight(f), outline \in Outlines :
              LET merged == _merge_data(f, f.entries[f.batch[j].entry], outline)
                  waiting == { k \in 1..Len(f.batch) : f.batch[k].at = "waiting" }
                  next == IF waiting = { } THEN 0
                          ELSE CHOOSE k \in waiting : \A m \in waiting : k <= m
              IN  fetcher' =
                    Some([ f EXCEPT
                             !.enriched_count = merged.enriched_count,
                             !.error_count = merged.error_count,
                             !.semaphore = IF next = 0 THEN @ + 1 ELSE @,
                             !.batch =
                                 [ k \in 1..Len(f.batch) |->
                                     IF k = j
                                     THEN [ f.batch[k] EXCEPT
                                              !.at = "done",
                                              !.result = Some(merged.course) ]
                                     ELSE IF k = next
                                     THEN [ f.batch[k] EXCEPT !.at = "fetching" ]
                                     ELSE f.batch[k] ] ])
    /\ UNCHANGED << pc, fetchFrame >>

\* asyncio.gather returns the results in the order of its tasks:
\* courses.extend(batch_results), then the delay if another batch follows
GatherReturns ==
    /\ call = "_enrich_courses" /\ pc = "gathering"
    /\ LET f == Val(fetcher)
           batch_size == MAX_CONCURRENT_OUTLINE_REQUESTS
       IN  /\ \A j \in 1..Len(f.batch) : f.batch[j].at = "done"
           /\ fetcher' =
                Some([ f EXCEPT
                         !.courses =
                             @ \o [ j \in 1..Len(f.batch) |->
                                      Val(f.batch[j].result) ],
                         !.batch = << >>,
                         !.i = @ + batch_size ])
           /\ pc' = IF f.i + batch_size < Len(f.entries) THEN "sleeping"
                    ELSE "loop"
    /\ UNCHANGED fetchFrame

\* asyncio.sleep(BATCH_DELAY_SECONDS) returns
BatchDelay ==
    /\ call = "_enrich_courses" /\ pc = "sleeping"
    /\ pc' = "loop"
    /\ UNCHANGED << fetcher, fetchFrame >>

\* the loop is over: return courses
ReturnCourses ==
    /\ call = "_enrich_courses" /\ pc = "loop"
    /\ LET f == Val(fetcher)
       IN  /\ f.i >= Len(f.entries)
           /\ fetcher' = Some([ f EXCEPT !.returned = Some(f.courses) ])
    /\ pc' = "done"
    /\ UNCHANGED fetchFrame

FetchNext ==
    \/ StartBatch
    \/ OutlineReturns
    \/ GatherReturns
    \/ BatchDelay
    \/ ReturnCourses

FetchSpec == FetchInit /\ [][FetchNext]_vars

\* C30: _enrich_courses over N entries never has more than 10 outline fetches
\* in flight, returns exactly N RawCourses in the order of the entries, and
\* afterwards enriched_count + error_count = N with enriched_count the number
\* of returned courses that have an outline.
C30_EnrichKeepsOrderAndCounts ==
    LET f == Val(fetcher)
        n == Len(f.entries)
    IN  /\ Cardinality(InFlight(f)) <= 10
        /\ f.semaphore >= 0
        /\ pc = "done" =>
              LET result == Val(f.returned)
              IN  /\ Len(result) = n
                  /\ \A i \in 1..n :
                        /\ result[i].course_code = f.entries[i].course_code
                        /\ result[i].section = f.entries[i].section
                  /\ f.enriched_count + f.error_count = n
                  /\ f.enriched_count
                       = Cardinality({ i \in 1..n : result[i].has_outline })

\* eleven entries, fetched in two batches, some with and some without outline
C30_Witness ==
    /\ pc = "done"
    /\ Len(Val(fetcher).entries) = 11
    /\ Len(Val(Val(fetcher).returned)) = 11
    /\ Val(fetcher).enriched_count = 7
    /\ Val(fetcher).error_count = 4
    /\ Val(Val(fetcher).returned)[11].has_outline
    /\ ~Val(Val(fetcher).returned)[10].has_outline

-----------------------------------------------------------------------------
(* Concurrent requests: recommend coroutines interleaved at their awaits *)

\* most recommend coroutines alive at once
MaxConcurrent == 2

\* the requests served concurrently
ConcurrentRequests ==
    { [ query |-> S("programming"), filters |-> NoFilters, top_k |-> 2,
        min_relevance |-> 3000 ],
      [ query |-> S("ethics"),
        filters |-> [ NoFilters EXCEPT !.max_level = Some(200) ],
        top_k |-> 1, min_relevance |-> 6000 ] }

\* what the embedding service and the index do when embed_query is awaited:
\* the call raises, or returns an embedding, given by its distance to each
\* Catalog entry, after which collection.query returns or raises
EmbedReplies ==
    { [ raises |-> TRUE ],
      [ raises |-> FALSE, query_raises |-> TRUE,
        embedding |-> << 3000, 3500, 4000, 4500, 5000, 5500 >> ],
      [ raises |-> FALSE, query_raises |-> FALSE,
        embedding |-> << 3000, 3500, 4000, 4500, 5000, 5500 >> ],
      [ raises |-> FALSE, query_raises |-> FALSE,
        embedding |-> << 4500, 4000, 3500, 3000, 2500, 2000 >> ] }

\* the entries of the collection as collection.query ranks them for an
\* embedding
QueryEmbeddings(entries, embedding) ==
    ByDistance({ m \in 1..Len(Catalog) :
                   \E i \in 1..Len(entries) : entries[i].id = Catalog[m].id },
               embedding)

\* the locals of a recommend coroutine suspended at interpret_query
RecommendFrame(r) ==
    [ at |-> "interpret_query", query |-> r.query, filters |-> r.filters,
      top_k |-> r.top_k, min_relevance |-> r.min_relevance,
      interpretation |-> None, candidates |-> << >>, courses |-> << >>,
      result |-> None ]

\* the loop of Step 5 up to its next await, or the return after it
NextCandidate(fr) ==
    IF Len(fr.courses) < Len(TopK(fr.candidates, fr.top_k))
    THEN [ fr EXCEPT !.at = "generate_match_reason" ]
    ELSE [ fr EXCEPT
             !.at = "returned",
             !.result =
                 Some([ success |-> TRUE,
                        query_interpretation |->
                            Val(fr.interpretation).interpretation,
                        courses |-> fr.courses ]) ]

\* recommend from the await it is suspended at, resumed with reply, up to its
\* next await, its return or its exception
Resume(entries, fr, reply) ==
    CASE fr.at = "interpret_query" ->
           LET r == interpret_query(fr.query, reply)
           IN  IF r.raised THEN [ fr EXCEPT !.at = "raised" ]
               ELSE [ fr EXCEPT !.at = "embed_query",
                                !.interpretation = Some(r.value) ]
      [] fr.at = "embed_query" ->
           IF reply.raises THEN [ fr EXCEPT !.at = "raised" ]
           ELSE IF reply.query_raises THEN [ fr EXCEPT !.at = "raised" ]
           ELSE NextCandidate(
                  [ fr EXCEPT
                      !.candidates =
                          Threshold(
                            search_courses(
                              QueryEmbeddings(entries, reply.embedding),
                              fr.filters, fr.top_k * 2),
                            fr.min_relevance) ])
      [] fr.at = "generate_match_reason" ->
           LET r == generate_match_reason(reply)
               candidate == TopK(fr.candidates, fr.top_k)[Len(fr.courses) + 1]
           IN  IF r.raised THEN [ fr EXCEPT !.at = "raised" ]
               ELSE NextCandidate(
                      [ fr EXCEPT
                          !.courses =
                              Append(@, CourseResult(candidate, r.value)) ])
      [] OTHER -> fr

\* one frame on the engine for every coroutine
Frame_shared(ts, t) == ts[1].frame

\* the locals of coroutine t
Frame(ts, t) == ts[t].frame

\* the engine is serving over SAMPLE_COURSES and no request has arrived
ConcurrentInit ==
    /\ NoPipeline
    /\ corpus = SAMPLE_COURSES
    /\ call = "serve"
    /\ pc = "idle"
    /\ query = << >>
    /\ filters = NoFilters
    /\ top_k = 0
    /\ min_relevance = 0
    /\ n_results = 0
    /\ interpretation = None
    /\ candidates = << >>
    /\ courses = << >>
    /\ outcome = "none"
    /\ queries = << >>
    /\ reasonCalls = << >>
    /\ stages = << >>
    /\ response = None
    /\ NoService
    /\ NoIndexing

\* the variables the coroutines leave alone: everything but their own frames
concurrentFrame ==
    << corpus, call, pc, query, filters, top_k, min_relevance, n_results,
       interpretation, candidates, courses, outcome, queries, reasonCalls,
       stages, response, serviceVars, indexVars, pipelineVars >>

\* a request arrives: recommend is called and runs to its first await
ReceiveRequest ==
    /\ call = "serve"
    /\ Len(tasks) < MaxConcurrent
    /\ \E r \in ConcurrentRequests :
          tasks' = Append(tasks, [ request |-> r, replies |-> << >>,
                                   frame |-> RecommendFrame(r) ])
    /\ UNCHANGED concurrentFrame

\* coroutine t resumed with reply
ResumeWith(t, reply) ==
    tasks' = [ tasks EXCEPT
                 ![t].frame = Resume(corpus, Frame(tasks, t), reply),
                 ![t].replies = Append(@, reply) ]

\* the interpretation call of a coroutine completes
InterpretReturns ==
    /\ call = "serve"
    /\ \E t \in 1..Len(tasks) :
          /\ Frame(tasks, t).at = "interpret_query"
          /\ \E reply \in InterpretReplies : ResumeWith(t, reply)
    /\ UNCHANGED concurrentFrame

\* the embedding call of a coroutine completes
EmbeddingReturns ==
    /\ call = "serve"
    /\ \E t \in 1..Len(tasks) :
          /\ Frame(tasks, t).at = "embed_query"
          /\ \E reply \in EmbedReplies : ResumeWith(t, reply)
    /\ UNCHANGED concurrentFrame

\* a match reason call of a coroutine completes
MatchReasonReturns ==
    /\ call = "serve"
    /\ \E t \in 1..Len(tasks) :
          /\ Frame(tasks, t).at = "generate_match_reason"
          /\ \E reply \in MatchReplies : ResumeWith(t, reply)
    /\ UNCHANGED concurrentFrame

ConcurrentNext ==
    \/ ReceiveRequest
    \/ InterpretReturns
    \/ EmbeddingReturns
    \/ MatchReasonReturns

ConcurrentSpec == ConcurrentInit /\ [][ConcurrentNext]_vars

\* recommend(r) run alone against entries, given the replies its awaits get
RECURSIVE RunAlone(_, _, _)
RunAlone(entries, r, replies) ==
    IF Len(replies) = 0 THEN RecommendFrame(r)
    ELSE Resume(entries,
                RunAlone(entries, r, SubSeq(replies, 1, Len(replies) - 1)),
                replies[Len(replies)])

====
